---- MODULE Spec2Model ----
(***************************************************************************)
(* Model of the Scalegraph CLI's navigation and form state engine          *)
(* (src/cli/src/ui/app.rs): the App state container, its methods, and the  *)
(* run_app event loop.  Every iteration of the loop (render, poll, key     *)
(* dispatch with the loads it awaits) is one action.                       *)
(*                                                                         *)
(* Conventions: Option<T> is a sequence of length <= 1 (<<>> is None,      *)
(* <<x>> is Some(x)); Result<T> is [ok, val]; a String the code inspects   *)
(* (form fields, account ids, labels) is a sequence of one-character       *)
(* strings; indices are 0-based as in the source.                          *)
(***************************************************************************)
EXTENDS Integers, Sequences, FiniteSets, TLC

\* ------------------------------------------------------------------ bounds

\* Longest text the user types into one form field.
MaxLen == 1
\* Most lines the history holds before a further transfer is submitted.
MaxHistory == 2

\* ------------------------------------------------------------ Option/Result

None == <<>>
Some(x) == <<x>>
is_some(o) == o # <<>>
unwrap_or(o, d) == IF o = <<>> THEN d ELSE o[1]

Ok(v) == [ok |-> TRUE, val |-> v]
Err == [ok |-> FALSE, val |-> <<>>]

\* ------------------------------------------------------------------- View

\* View::all(): the flat navigation order; ParticipantDetail is not in it.
View_all == <<"Participants", "Transfer", "History", "Future">>

Views == {"Participants", "ParticipantDetail", "Transfer", "History", "Future"}

\* Iterator::position: the first 0-based index holding v, or None.
position(views, v) ==
  IF \E i \in 1..Len(views) : views[i] = v
  THEN Some((CHOOSE i \in 1..Len(views) :
               views[i] = v /\ \A j \in 1..(i - 1) : views[j] # v) - 1)
  ELSE None

\* ----------------------------------------------------------- the App state

VARIABLES
  current_view,        \* App.current_view
  running,             \* App.running
  breadcrumb,          \* App.breadcrumb: sequence of [label, view, context]
  participants,        \* App.participants: sequence of [id, name]
  participant_state,   \* App.participant_state.selected(): Option<usize>
  participant_detail,  \* App.participant_detail: Option<[id, name, accounts, total_balance]>
  accounts,            \* App.accounts: sequence of [id, participant_id, account_type, balance]
  transfer_form,       \* App.transfer_form
  history,             \* App.history: sequence of lines
  future_events,       \* App.future_events: sequence of [contract_id, execution_time]
  loading,             \* App.loading
  pc,                  \* run_app's position: "start", "loop", "done" or "panicked"
  calls,               \* the App methods the last iteration called, in order
  sent,                \* the transfer request the last iteration sent: Option<[entries, reference]>
  from_view,           \* the view the last iteration started in
  in_flight,           \* the awaited calls whose RPC is outstanding
  pending,             \* the calls the iteration under way has still to await, in order
  acc_balance,         \* an account's balance in cents, as the server holds it
  rendered,            \* its text in the CLI and in the MCP server: [cli, mcp] of Option
  mcp                  \* the MCP server's main: [stdin, stdout, request, read, ended]

vars == <<current_view, running, breadcrumb, participants, participant_state,
          participant_detail, accounts, transfer_form, history, future_events,
          loading, pc, calls, sent, from_view, in_flight, pending, acc_balance, rendered, mcp>>

\* TransferForm::default()
TransferForm_default ==
  [from_account |-> <<>>, to_account |-> <<>>, amount |-> <<>>, reference |-> <<>>,
   selected_field |-> 0, error |-> None, success |-> None,
   suggestion_index |-> None, show_suggestions |-> FALSE]

\* The App as one value at the start of an iteration.  calls and sent log what
\* the iteration does; panicked tells that it ended in a panic.
App ==
  [current_view |-> current_view, running |-> running, breadcrumb |-> breadcrumb,
   participants |-> participants, participant_state |-> participant_state,
   participant_detail |-> participant_detail, accounts |-> accounts,
   transfer_form |-> transfer_form, history |-> history,
   future_events |-> future_events, loading |-> loading,
   calls |-> <<>>, sent |-> <<>>, panicked |-> FALSE]

\* The App fields as a handler left them in a.
Assign(a) ==
  /\ current_view' = a.current_view
  /\ running' = a.running
  /\ breadcrumb' = a.breadcrumb
  /\ participants' = a.participants
  /\ participant_state' = a.participant_state
  /\ participant_detail' = a.participant_detail
  /\ accounts' = a.accounts
  /\ transfer_form' = a.transfer_form
  /\ history' = a.history
  /\ future_events' = a.future_events
  /\ loading' = a.loading
  /\ calls' = a.calls
  /\ sent' = a.sent
  /\ from_view' = current_view
  /\ UNCHANGED <<acc_balance, rendered, mcp>>

\* The state after a handler returned a: every call it awaited has returned.
Commit(a) == Assign(a) /\ UNCHANGED <<in_flight, pending>>

Called(a, name) == [a EXCEPT !.calls = Append(@, name)]

\* -------------------------------------------------------------- breadcrumb

Segment(label, view, context) == [label |-> label, view |-> view, context |-> context]

\* A faulty variant of update_breadcrumb: it appends to the old trail instead of
\* rebuilding it.
update_breadcrumb_keeps(a) ==
  [a EXCEPT !.breadcrumb = @ \o <<Segment(a.current_view, a.current_view, None)>>]

\* App::update_breadcrumb
update_breadcrumb(a) ==
  [a EXCEPT !.breadcrumb =
     CASE a.current_view = "Participants" ->
            <<Segment("Participants", "Participants", None)>>
       [] a.current_view = "ParticipantDetail" ->
            <<Segment("Participants", "Participants", None)>>
            \o (IF is_some(a.participant_detail)
                THEN <<Segment(a.participant_detail[1].name, "ParticipantDetail",
                               Some(a.participant_detail[1].id))>>
                ELSE <<>>)
       [] a.current_view = "Transfer" -> <<Segment("Transfer", "Transfer", None)>>
       [] a.current_view = "History" -> <<Segment("History", "History", None)>>
       [] a.current_view = "Future" -> <<Segment("Future", "Future", None)>>]

\* A faulty variant of navigate_to_breadcrumb: an index past the end is taken
\* for the last segment.
navigate_to_breadcrumb_clamped(a0, index) ==
  LET a == Called(a0, "navigate_to_breadcrumb")
      last == IF index < Len(a.breadcrumb) THEN index ELSE Len(a.breadcrumb) - 1
  IN update_breadcrumb(
       [a EXCEPT !.current_view = a.breadcrumb[last + 1].view,
                 !.breadcrumb = SubSeq(a.breadcrumb, 1, last + 1)])

\* App::navigate_to_breadcrumb
navigate_to_breadcrumb(a0, index) ==
  LET a == Called(a0, "navigate_to_breadcrumb")
  IN IF index < Len(a.breadcrumb)
     THEN update_breadcrumb(
            [a EXCEPT !.current_view = a.breadcrumb[index + 1].view,
                      !.breadcrumb = SubSeq(a.breadcrumb, 1, index + 1)])
     ELSE a

\* --------------------------------------------------------- flat navigation

\* A faulty variant of next_view: it cycles over all five views.
next_view_all_views(a0) ==
  LET a == Called(a0, "next_view")
      views == <<"Participants", "ParticipantDetail", "Transfer", "History", "Future">>
      idx == unwrap_or(position(views, a.current_view), 0)
  IN update_breadcrumb([a EXCEPT !.current_view = views[((idx + 1) % Len(views)) + 1]])

\* A faulty variant of next_view: the wrap is taken one view too early.
next_view_short_cycle(a0) ==
  LET a == Called(a0, "next_view")
      views == View_all
      idx == unwrap_or(position(views, a.current_view), 0)
  IN update_breadcrumb(
       [a EXCEPT !.current_view = views[((idx + 1) % (Len(views) - 1)) + 1]])

\* A faulty variant of next_view: a view that is not a tab stays where it is.
next_view_stays_in_detail(a0) ==
  LET a == Called(a0, "next_view")
      views == View_all
      found == position(views, a.current_view)
  IN IF found = None THEN a
     ELSE update_breadcrumb(
            [a EXCEPT !.current_view = views[((found[1] + 1) % Len(views)) + 1]])

\* App::next_view
next_view(a0) ==
  LET a == Called(a0, "next_view")
      views == View_all
      idx == unwrap_or(position(views, a.current_view), 0)
  IN update_breadcrumb([a EXCEPT !.current_view = views[((idx + 1) % Len(views)) + 1]])

\* App::prev_view
prev_view(a0) ==
  LET a == Called(a0, "prev_view")
      views == View_all
      idx == unwrap_or(position(views, a.current_view), 0)
  IN update_breadcrumb(
       [a EXCEPT !.current_view = views[((idx + Len(views) - 1) % Len(views)) + 1]])

\* A faulty variant of goto_view: the index is taken in the full enumeration
\* of the views.
goto_view_all_views(a0, index) ==
  LET a == Called(a0, "goto_view")
      views == <<"Participants", "ParticipantDetail", "Transfer", "History", "Future">>
  IN IF index < Len(views)
     THEN update_breadcrumb([a EXCEPT !.current_view = views[index + 1]])
     ELSE a

\* A faulty variant of goto_view: an index past the end wraps around.
goto_view_wrapping(a0, index) ==
  LET a == Called(a0, "goto_view")
      views == View_all
  IN update_breadcrumb([a EXCEPT !.current_view = views[(index % Len(views)) + 1]])

\* App::goto_view
goto_view(a0, index) ==
  LET a == Called(a0, "goto_view")
      views == View_all
  IN IF index < Len(views)
     THEN update_breadcrumb([a EXCEPT !.current_view = views[index + 1]])
     ELSE a

\* ------------------------------------------------------------ text helpers

Digits == <<"0", "1", "2", "3", "4", "5", "6", "7", "8", "9">>
DigitSet == {Digits[i] : i \in 1..10}
digit_value(c) == (CHOOSE i \in 1..10 : Digits[i] = c) - 1

\* The width of the signed integer type the amounts are computed in.  The
\* program's i64 is modelled by a narrower two's complement type, so that its
\* least and greatest values are within reach of the texts the user types.
IntBits == 8
INT_MIN == -(2 ^ (IntBits - 1))
INT_MAX == (2 ^ (IntBits - 1)) - 1

\* Rust's integer division truncates toward zero and % takes the dividend's sign.
trunc_div(x, y) == IF x >= 0 THEN x \div y ELSE -((-x) \div y)
trunc_rem(x, y) == x - y * trunc_div(x, y)
abs(x) == IF x < 0 THEN -x ELSE x

\* Display of a non-negative integer: its decimal digits.
RECURSIVE to_string(_)
to_string(n) ==
  IF n < 10 THEN <<Digits[n + 1]>> ELSE to_string(n \div 10) \o <<Digits[(n % 10) + 1]>>

\* {:02}: at least two digits, zero padded.
pad2(n) == IF n < 10 THEN <<"0">> \o to_string(n) ELSE to_string(n)

\* A faulty variant of format_balance: the sign is left to the display of the
\* whole part, which has none for the values from -99 to -1.
format_balance_sign_of_whole(balance) ==
  LET whole == trunc_div(balance, 100)
      cents == abs(trunc_rem(balance, 100))
  IN (IF whole < 0 THEN <<"-">> \o to_string(-whole) ELSE to_string(whole))
       \o <<".">> \o pad2(cents)

\* grpc::format_balance
format_balance(balance) ==
  LET whole == trunc_div(balance, 100)
      cents == abs(trunc_rem(balance, 100))
  IN IF balance < 0
     THEN <<"-">> \o to_string(abs(whole)) \o <<".">> \o pad2(cents)
     ELSE to_string(whole) \o <<".">> \o pad2(cents)

\* format_balance of the MCP server
format_balance_mcp(balance) ==
  LET whole == trunc_div(balance, 100)
      cents == abs(trunc_rem(balance, 100))
  IN IF balance < 0
     THEN <<"-">> \o to_string(abs(whole)) \o <<".">> \o pad2(cents)
     ELSE to_string(whole) \o <<".">> \o pad2(cents)

\* The digit loop of str::parse: each digit is accumulated with a checked
\* multiplication and a checked addition (subtraction for a negative number),
\* so that a value out of range is an error.
RECURSIVE parse_digits(_, _, _)
parse_digits(ds, acc, negative) ==
  IF ds = <<>> THEN Some(acc)
  ELSE IF ds[1] \notin DigitSet THEN None
  ELSE LET next == IF negative THEN acc * 10 - digit_value(ds[1])
                   ELSE acc * 10 + digit_value(ds[1])
       IN IF next < INT_MIN \/ next > INT_MAX THEN None
          ELSE parse_digits(Tail(ds), next, negative)

\* str::parse for a signed integer: an optional sign, then one or more decimal
\* digits; anything else is an error (None).
parse_int(text) ==
  LET signed == text # <<>> /\ text[1] \in {"+", "-"}
      ds == IF signed THEN Tail(text) ELSE text
  IN IF ds = <<>> THEN None
     ELSE parse_digits(ds, 0, signed /\ text[1] = "-")

\* ----------------------------------------------- the remote ledger service

\* What the server may answer.  Each load draws its answers from these sets.
ParticipantIds == {"p1", "p2"}
Participant(pid) == [id |-> pid, name |-> IF pid = "p1" THEN "Alice" ELSE "Bob"]

\* list_participants: Ok with one of these lists, or Err.
ParticipantLists ==
  {<<>>, <<Participant("p1")>>, <<Participant("p1"), Participant("p2")>>}

\* get_participant(pid): Ok with the participant (the server may have renamed
\* it since it was listed), or Err.
NamesOf(pid) == IF pid = "p1" THEN {"Alice", "Alicia"} ELSE {"Bob"}

Account(id, pid, type, balance) ==
  [id |-> id, participant_id |-> pid, account_type |-> type, balance |-> balance]

Operating == <<"O", "p", "e", "r", "a", "t", "i", "n", "g">>
Receivables == <<"R", "e", "c", "e", "i", "v", "a", "b", "l", "e", "s">>

\* get_participant_accounts(pid): Ok with these accounts, or Err.
AccountsOf(pid) ==
  IF pid = "p1"
  THEN <<Account(<<"a", "1">>, "p1", Operating, 1000)>>
  ELSE <<Account(<<"b", "1">>, "p2", Operating, -250),
         Account(<<"a", "2">>, "p2", Receivables, 0)>>

\* A history line.  A line of load_transactions shows the transaction's id,
\* type, entries and reference; a line of execute_transfer shows the formatted
\* amount, the two accounts, the reference and the transaction id.
Line(kind, tx, amount, from, to, reference) ==
  [kind |-> kind, tx |-> tx, amount |-> amount, from |-> from, to |-> to,
   reference |-> reference]

\* list_transactions: Ok with one of these lists, or Err.  A transaction is
\* [id, from, to, amount, reference].
Transaction(id, from, to, amount, reference) ==
  [id |-> id, from |-> from, to |-> to, amount |-> amount, reference |-> reference]
TransactionLists == {<<Transaction("S1", <<"a", "1">>, <<"b", "1">>, 150023, <<>>)>>}

\* A contract of list_contracts: kind is the oneof's variant; time is
\* due_date / next_billing_date / next_execution_at; status is the status
\* string of an invoice or a subscription, gstatus the status number of a
\* generic contract.
Contract(id, kind, time, status, gstatus) ==
  [id |-> id, kind |-> kind, time |-> time, status |-> status, gstatus |-> gstatus]

\* ------------------------------------------------------------------- loads

\* App::load_participants: on an RPC error `?` returns before loading is reset.
load_participants(a0, resp) ==
  LET a == Called([a0 EXCEPT !.loading = TRUE], "load_participants")
  IN IF resp.ok
     THEN [a EXCEPT !.participants = resp.val, !.loading = FALSE]
     ELSE a

RECURSIVE sum_balances(_)
sum_balances(accs) ==
  IF accs = <<>> THEN 0 ELSE accs[1].balance + sum_balances(Tail(accs))

\* App::load_participant_detail: either RPC failing returns early through `?`;
\* a failing list_contracts is an empty list (unwrap_or_default).
load_participant_detail(a0, participant_id, presp, aresp) ==
  LET a == Called([a0 EXCEPT !.loading = TRUE], "load_participant_detail")
  IN IF ~presp.ok THEN a
     ELSE IF ~aresp.ok THEN a
     ELSE [a EXCEPT !.participant_detail =
                      Some([id |-> presp.val.id, name |-> presp.val.name,
                            accounts |-> aresp.val,
                            total_balance |-> sum_balances(aresp.val)]),
                    !.loading = FALSE]

\* The accounts of the participants of ps whose get_participant_accounts
\* succeeds (failing is the set of participant ids whose call fails).
RECURSIVE collect_accounts(_, _)
collect_accounts(ps, failing) ==
  IF ps = <<>> THEN <<>>
  ELSE (IF ps[1].id \in failing THEN <<>> ELSE AccountsOf(ps[1].id))
       \o collect_accounts(Tail(ps), failing)

\* App::load_accounts: the list is cleared first, then refilled participant by
\* participant; a failing call is skipped.
load_accounts(a0, failing) ==
  LET a == Called([a0 EXCEPT !.loading = TRUE, !.accounts = <<>>], "load_accounts")
  IN [a EXCEPT !.accounts = collect_accounts(a.participants, failing),
               !.loading = FALSE]

\* Whether a contract becomes a future event (load_future_events' match arms).
is_scheduled(c, now) ==
  \/ c.kind = "Invoice" /\ c.time > now /\ c.status = "pending"
  \/ c.kind = "Subscription" /\ c.time > now /\ c.status = "active"
  \/ c.kind = "Generic" /\ c.time > now /\ c.gstatus = 1

FutureEvent(c) == [contract_id |-> c.id, execution_time |-> c.time]

RECURSIVE scheduled_events(_, _)
scheduled_events(contracts, now) ==
  IF contracts = <<>> THEN <<>>
  ELSE (IF is_scheduled(contracts[1], now) THEN <<FutureEvent(contracts[1])>> ELSE <<>>)
       \o scheduled_events(Tail(contracts), now)

\* slice::sort_by_key on execution_time: a stable sort.
RECURSIVE insert_by_time(_, _)
insert_by_time(sorted, e) ==
  IF sorted = <<>> THEN <<e>>
  ELSE IF sorted[Len(sorted)].execution_time <= e.execution_time THEN Append(sorted, e)
  ELSE Append(insert_by_time(SubSeq(sorted, 1, Len(sorted) - 1), e), sorted[Len(sorted)])

RECURSIVE sort_by_time(_)
sort_by_time(events) ==
  IF events = <<>> THEN <<>>
  ELSE insert_by_time(sort_by_time(SubSeq(events, 1, Len(events) - 1)), events[Len(events)])

\* Iterator::take
take(s, n) == SubSeq(s, 1, IF Len(s) < n THEN Len(s) ELSE n)

\* The number of events the Future view keeps.
TopEvents == 5

\* A faulty variant of load_future_events: the events keep the order in which
\* the server listed them.
load_future_events_unsorted(a0, resp, now) ==
  LET a == Called([a0 EXCEPT !.loading = TRUE, !.future_events = <<>>], "load_future_events")
      contracts == IF resp.ok THEN resp.val ELSE <<>>
  IN [a EXCEPT !.future_events = take(scheduled_events(contracts, now), TopEvents),
               !.loading = FALSE]

\* App::load_future_events: the list is cleared first; a failing list_contracts
\* is an empty list (unwrap_or_default).
load_future_events(a0, resp, now) ==
  LET a == Called([a0 EXCEPT !.loading = TRUE, !.future_events = <<>>], "load_future_events")
      contracts == IF resp.ok THEN resp.val ELSE <<>>
      events == sort_by_time(scheduled_events(contracts, now))
  IN [a EXCEPT !.future_events = take(events, TopEvents), !.loading = FALSE]

transaction_line(tx) ==
  Line("tx", tx.id, format_balance(tx.amount), tx.from, tx.to, tx.reference)

RECURSIVE transaction_lines(_)
transaction_lines(txs) ==
  IF txs = <<>> THEN <<>> ELSE <<transaction_line(txs[1])>> \o transaction_lines(Tail(txs))

\* App::load_transactions: the history is cleared first and refilled only when
\* list_transactions succeeds.
load_transactions(a0, resp) ==
  LET a == Called([a0 EXCEPT !.loading = TRUE, !.history = <<>>], "load_transactions")
  IN [a EXCEPT !.history = IF resp.ok THEN transaction_lines(resp.val) ELSE <<>>,
               !.loading = FALSE]


\* ------------------------------------------------------- the transfer form

UpperLetters == <<"A", "B", "C", "D", "E", "F", "G", "H", "I", "J", "K", "L", "M",
                  "N", "O", "P", "Q", "R", "S", "T", "U", "V", "W", "X", "Y", "Z">>
LowerLetters == <<"a", "b", "c", "d", "e", "f", "g", "h", "i", "j", "k", "l", "m",
                  "n", "o", "p", "q", "r", "s", "t", "u", "v", "w", "x", "y", "z">>

lower_char(c) ==
  IF \E i \in 1..26 : UpperLetters[i] = c
  THEN LowerLetters[CHOOSE i \in 1..26 : UpperLetters[i] = c]
  ELSE c

\* str::to_lowercase
to_lowercase(text) == [i \in 1..Len(text) |-> lower_char(text[i])]

\* str::contains
contains(hay, needle) ==
  \E i \in 0..(Len(hay) - Len(needle)) : SubSeq(hay, i + 1, i + Len(needle)) = needle

\* Vec::pop / String::pop
pop(s) == IF s = <<>> THEN s ELSE SubSeq(s, 1, Len(s) - 1)

\* App::select_next
select_next(a) ==
  CASE a.current_view = "Participants" ->
         LET i == unwrap_or(a.participant_state, 0)
             last == IF Len(a.participants) = 0 THEN 0 ELSE Len(a.participants) - 1
         IN IF i < last THEN [a EXCEPT !.participant_state = Some(i + 1)] ELSE a
    [] a.current_view = "Transfer" ->
         [a EXCEPT !.transfer_form.selected_field = (@ + 1) % 4]
    [] OTHER -> a

\* App::select_prev
select_prev(a) ==
  CASE a.current_view = "Participants" ->
         LET i == unwrap_or(a.participant_state, 0)
         IN IF i > 0 THEN [a EXCEPT !.participant_state = Some(i - 1)] ELSE a
    [] a.current_view = "Transfer" ->
         [a EXCEPT !.transfer_form.selected_field = (@ + 3) % 4]
    [] OTHER -> a

\* The form with the text of field number `field` replaced.
with_field(form, field, text) ==
  CASE field = 0 -> [form EXCEPT !.from_account = text]
    [] field = 1 -> [form EXCEPT !.to_account = text]
    [] field = 2 -> [form EXCEPT !.amount = text]
    [] field = 3 -> [form EXCEPT !.reference = text]

field_text(form, field) ==
  CASE field = 0 -> form.from_account
    [] field = 1 -> form.to_account
    [] field = 2 -> form.amount
    [] field = 3 -> form.reference

\* A faulty variant of handle_char: typing shows the suggestions in every field.
handle_char_always_suggests(a, c) ==
  IF a.current_view = "Transfer"
  THEN LET f == a.transfer_form
       IN IF f.selected_field \notin 0..3 THEN a
          ELSE [a EXCEPT !.transfer_form =
                  [with_field(f, f.selected_field,
                              Append(field_text(f, f.selected_field), c))
                     EXCEPT !.suggestion_index = None,
                            !.show_suggestions = TRUE]]
  ELSE a

\* App::handle_char
handle_char(a, c) ==
  IF a.current_view = "Transfer"
  THEN LET f == a.transfer_form
       IN IF f.selected_field \notin 0..3 THEN a
          ELSE [a EXCEPT !.transfer_form =
                  [with_field(f, f.selected_field,
                              Append(field_text(f, f.selected_field), c))
                     EXCEPT !.suggestion_index = None,
                            !.show_suggestions = (f.selected_field <= 1)]]
  ELSE a

\* App::handle_backspace
handle_backspace(a) ==
  IF a.current_view = "Transfer"
  THEN LET f == a.transfer_form
       IN IF f.selected_field \notin 0..3 THEN a
          ELSE [a EXCEPT !.transfer_form =
                  [with_field(f, f.selected_field, pop(field_text(f, f.selected_field)))
                     EXCEPT !.suggestion_index = None,
                            !.show_suggestions = (f.selected_field <= 1)]]
  ELSE a

\* Iterator::filter over a sequence, keeping the order.
RECURSIVE filter_accounts(_, _)
filter_accounts(accs, filter) ==
  IF accs = <<>> THEN <<>>
  ELSE (IF \/ filter = <<>>
           \/ contains(to_lowercase(accs[1].id), to_lowercase(filter))
           \/ contains(to_lowercase(accs[1].account_type), to_lowercase(filter))
        THEN <<accs[1]>> ELSE <<>>)
       \o filter_accounts(Tail(accs), filter)

\* A faulty variant of get_account_suggestions: the filter is compared as typed
\* and with the account ids only.
RECURSIVE filter_accounts_by_id(_, _)
filter_accounts_by_id(accs, filter) ==
  IF accs = <<>> THEN <<>>
  ELSE (IF filter = <<>> \/ contains(accs[1].id, filter) THEN <<accs[1]>> ELSE <<>>)
       \o filter_accounts_by_id(Tail(accs), filter)

get_account_suggestions_by_id(a) ==
  LET f == a.transfer_form
  IN IF f.selected_field \notin {0, 1} THEN <<>>
     ELSE filter_accounts_by_id(a.accounts, field_text(f, f.selected_field))

\* App::get_account_suggestions
get_account_suggestions(a) ==
  LET f == a.transfer_form
  IN IF f.selected_field \notin {0, 1} THEN <<>>
     ELSE filter_accounts(a.accounts, field_text(f, f.selected_field))

\* A faulty variant of draw_transfer: the stored flag alone decides.
draw_transfer_trusting_flag(a) ==
  LET show_suggestions == a.transfer_form.show_suggestions
  IN [show_suggestions |-> show_suggestions,
      suggestions |-> IF show_suggestions THEN get_account_suggestions(a) ELSE <<>>]

\* views::draw_transfer, as far as it decides what is offered: the
\* suggestions are drawn only for a set flag and an account field.
draw_transfer(a) ==
  LET show_suggestions ==
        a.transfer_form.show_suggestions /\ a.transfer_form.selected_field <= 1
  IN [show_suggestions |-> show_suggestions,
      suggestions |-> IF show_suggestions THEN get_account_suggestions(a) ELSE <<>>]

\* The tail shared by next_suggestion and prev_suggestion: the index is stored
\* and the suggestion at it overwrites the focused account field.
apply_suggestion(a, suggestion_ids, new_index) ==
  LET f == [a.transfer_form EXCEPT !.show_suggestions = TRUE,
                                   !.suggestion_index = Some(new_index)]
  IN [a EXCEPT !.transfer_form =
        IF new_index < Len(suggestion_ids) /\ f.selected_field \in {0, 1}
        THEN with_field(f, f.selected_field, suggestion_ids[new_index + 1])
        ELSE f]

\* A faulty variant of next_suggestion: the suggestions are switched on before
\* the match list is looked at.
next_suggestion_shows_first(a0) ==
  LET a == Called(a0, "next_suggestion")
  IN
  IF a.current_view # "Transfer" \/ a.transfer_form.selected_field > 1 THEN a
  ELSE LET suggestions == get_account_suggestions(a)
           suggestion_ids == [i \in 1..Len(suggestions) |-> suggestions[i].id]
       IN IF suggestion_ids = <<>>
          THEN [a EXCEPT !.transfer_form.show_suggestions = TRUE]
          ELSE apply_suggestion(a, suggestion_ids,
                 IF a.transfer_form.suggestion_index = None THEN 0
                 ELSE (a.transfer_form.suggestion_index[1] + 1) % Len(suggestion_ids))

\* App::next_suggestion
next_suggestion(a0) ==
  LET a == Called(a0, "next_suggestion")
  IN
  IF a.current_view # "Transfer" \/ a.transfer_form.selected_field > 1 THEN a
  ELSE LET suggestions == get_account_suggestions(a)
           suggestion_ids == [i \in 1..Len(suggestions) |-> suggestions[i].id]
       IN IF suggestion_ids = <<>> THEN a
          ELSE apply_suggestion(a, suggestion_ids,
                 IF a.transfer_form.suggestion_index = None THEN 0
                 ELSE (a.transfer_form.suggestion_index[1] + 1) % Len(suggestion_ids))

\* App::prev_suggestion
prev_suggestion(a0) ==
  LET a == Called(a0, "prev_suggestion")
  IN
  IF a.current_view # "Transfer" \/ a.transfer_form.selected_field > 1 THEN a
  ELSE LET suggestions == get_account_suggestions(a)
           suggestion_ids == [i \in 1..Len(suggestions) |-> suggestions[i].id]
       IN IF suggestion_ids = <<>> THEN a
          ELSE apply_suggestion(a, suggestion_ids,
                 IF a.transfer_form.suggestion_index = None THEN Len(suggestion_ids) - 1
                 ELSE IF a.transfer_form.suggestion_index[1] = 0
                      THEN Len(suggestion_ids) - 1
                      ELSE a.transfer_form.suggestion_index[1] - 1)

\* A faulty variant of accept_suggestion: the focus moves on only when a
\* suggestion was selected.
accept_suggestion_if_selected(a0) ==
  LET a == Called(a0, "accept_suggestion")
  IN IF a.transfer_form.suggestion_index = None
     THEN [a EXCEPT !.transfer_form.show_suggestions = FALSE]
     ELSE [a EXCEPT !.transfer_form.suggestion_index = None,
                    !.transfer_form.show_suggestions = FALSE,
                    !.transfer_form.selected_field = (@ + 1) % 4]

\* App::accept_suggestion
accept_suggestion(a0) ==
  LET a == Called(a0, "accept_suggestion")
  IN [a EXCEPT !.transfer_form.suggestion_index = None,
               !.transfer_form.show_suggestions = FALSE,
               !.transfer_form.selected_field = (@ + 1) % 4]

\* The messages of the form, as the pieces format! joins.
InvalidAmount == <<"Invalid amount">>
MissingAccounts == <<"Both accounts required">>
Failed(e) == <<"Failed: ", e>>
Success(tx_id) == <<"Success! TX: ", tx_id>>

\* A faulty variant of execute_transfer: it checks the accounts before it
\* parses the amount.
execute_transfer_accounts_first(a0, resp, overflow_checks) ==
  LET a == Called([a0 EXCEPT !.transfer_form.error = None,
                             !.transfer_form.success = None], "execute_transfer")
      f == a.transfer_form
  IN IF f.from_account = <<>> \/ f.to_account = <<>>
     THEN [a EXCEPT !.transfer_form.error = Some(MissingAccounts)]
     ELSE IF parse_int(f.amount) = None
     THEN [a EXCEPT !.transfer_form.error = Some(InvalidAmount),
                    !.transfer_form.amount = <<>>]
     ELSE a

\* A faulty variant of execute_transfer: the form keeps its texts after a success.
execute_transfer_keeps_form(a0, resp, overflow_checks) ==
  LET a == Called([a0 EXCEPT !.transfer_form.error = None,
                             !.transfer_form.success = None], "execute_transfer")
      f == a.transfer_form
      parsed == parse_int(f.amount)
  IN IF parsed = None
     THEN [a EXCEPT !.transfer_form.error = Some(InvalidAmount)]
     ELSE IF f.from_account = <<>> \/ f.to_account = <<>>
     THEN [a EXCEPT !.transfer_form.error = Some(MissingAccounts)]
     ELSE IF parsed[1] = INT_MIN /\ overflow_checks
     THEN [a EXCEPT !.panicked = TRUE]
     ELSE
       LET amount == parsed[1]
           negated == IF amount = INT_MIN THEN INT_MIN ELSE -amount
           entries == <<[account_id |-> f.from_account, amount |-> negated],
                        [account_id |-> f.to_account, amount |-> amount]>>
           b == [Called(a, "transfer") EXCEPT
                   !.sent = Some([entries |-> entries, reference |-> f.reference])]
       IN IF resp.ok
          THEN [b EXCEPT
                  !.history = Append(@, Line("transfer", resp.val, format_balance(amount),
                                             f.from_account, f.to_account, f.reference)),
                  !.transfer_form = [f EXCEPT !.success = Some(Success(resp.val))]]
          ELSE [b EXCEPT !.transfer_form = [f EXCEPT !.error = Some(Failed(resp.val))]]

\* A faulty variant of execute_transfer: a rejected transfer empties the form.
execute_transfer_resets_on_failure(a0, resp, overflow_checks) ==
  LET a == Called([a0 EXCEPT !.transfer_form.error = None,
                             !.transfer_form.success = None], "execute_transfer")
      f == a.transfer_form
      parsed == parse_int(f.amount)
  IN IF parsed = None
     THEN [a EXCEPT !.transfer_form.error = Some(InvalidAmount)]
     ELSE IF f.from_account = <<>> \/ f.to_account = <<>>
     THEN [a EXCEPT !.transfer_form.error = Some(MissingAccounts)]
     ELSE IF parsed[1] = INT_MIN /\ overflow_checks
     THEN [a EXCEPT !.panicked = TRUE]
     ELSE
       LET amount == parsed[1]
           negated == IF amount = INT_MIN THEN INT_MIN ELSE -amount
           entries == <<[account_id |-> f.from_account, amount |-> negated],
                        [account_id |-> f.to_account, amount |-> amount]>>
           b == [Called(a, "transfer") EXCEPT
                   !.sent = Some([entries |-> entries, reference |-> f.reference])]
       IN IF resp.ok
          THEN [b EXCEPT
                  !.history = Append(@, Line("transfer", resp.val, format_balance(amount),
                                             f.from_account, f.to_account, f.reference)),
                  !.transfer_form = [TransferForm_default EXCEPT !.success = Some(Success(resp.val))]]
          ELSE [b EXCEPT !.transfer_form = [TransferForm_default EXCEPT !.error = Some(Failed(resp.val))]]

\* A faulty variant of execute_transfer: the success message of an earlier transfer is not cleared.
execute_transfer_keeps_success(a0, resp, overflow_checks) ==
  LET a == Called([a0 EXCEPT !.transfer_form.error = None], "execute_transfer")
      f == a.transfer_form
      parsed == parse_int(f.amount)
  IN IF parsed = None
     THEN [a EXCEPT !.transfer_form.error = Some(InvalidAmount)]
     ELSE IF f.from_account = <<>> \/ f.to_account = <<>>
     THEN [a EXCEPT !.transfer_form.error = Some(MissingAccounts)]
     ELSE IF parsed[1] = INT_MIN /\ overflow_checks
     THEN [a EXCEPT !.panicked = TRUE]
     ELSE
       LET amount == parsed[1]
           negated == IF amount = INT_MIN THEN INT_MIN ELSE -amount
           entries == <<[account_id |-> f.from_account, amount |-> negated],
                        [account_id |-> f.to_account, amount |-> amount]>>
           b == [Called(a, "transfer") EXCEPT
                   !.sent = Some([entries |-> entries, reference |-> f.reference])]
       IN IF resp.ok
          THEN [b EXCEPT
                  !.history = Append(@, Line("transfer", resp.val, format_balance(amount),
                                             f.from_account, f.to_account, f.reference)),
                  !.transfer_form = [TransferForm_default EXCEPT !.success = Some(Success(resp.val))]]
          ELSE [b EXCEPT !.transfer_form = [f EXCEPT !.error = Some(Failed(resp.val))]]

\* A faulty variant of execute_transfer: it does not check the accounts.
execute_transfer_sends_incomplete(a0, resp, overflow_checks) ==
  LET a == Called([a0 EXCEPT !.transfer_form.error = None,
                             !.transfer_form.success = None], "execute_transfer")
      f == a.transfer_form
      parsed == parse_int(f.amount)
  IN IF parsed = None
     THEN [a EXCEPT !.transfer_form.error = Some(InvalidAmount)]
     ELSE IF parsed[1] = INT_MIN /\ overflow_checks
     THEN [a EXCEPT !.panicked = TRUE]
     ELSE
       LET amount == parsed[1]
           negated == IF amount = INT_MIN THEN INT_MIN ELSE -amount
           entries == <<[account_id |-> f.from_account, amount |-> negated],
                        [account_id |-> f.to_account, amount |-> amount]>>
           b == [Called(a, "transfer") EXCEPT
                   !.sent = Some([entries |-> entries, reference |-> f.reference])]
       IN IF resp.ok
          THEN [b EXCEPT
                  !.history = Append(@, Line("transfer", resp.val, format_balance(amount),
                                             f.from_account, f.to_account, f.reference)),
                  !.transfer_form =
                     [TransferForm_default EXCEPT !.success = Some(Success(resp.val))]]
          ELSE [b EXCEPT !.transfer_form.error = Some(Failed(resp.val))]

\* App::execute_transfer.  resp is the answer of the remote transfer.  -amount
\* overflows for the least integer: the build panics there with overflow checks
\* and wraps without them.
execute_transfer(a0, resp, overflow_checks) ==
  LET a == Called([a0 EXCEPT !.transfer_form.error = None,
                             !.transfer_form.success = None], "execute_transfer")
      f == a.transfer_form
      parsed == parse_int(f.amount)
  IN IF parsed = None
     THEN [a EXCEPT !.transfer_form.error = Some(InvalidAmount)]
     ELSE IF f.from_account = <<>> \/ f.to_account = <<>>
     THEN [a EXCEPT !.transfer_form.error = Some(MissingAccounts)]
     ELSE IF parsed[1] = INT_MIN /\ overflow_checks
     THEN [a EXCEPT !.panicked = TRUE]
     ELSE
       LET amount == parsed[1]
           negated == IF amount = INT_MIN THEN INT_MIN ELSE -amount
           entries == <<[account_id |-> f.from_account, amount |-> negated],
                        [account_id |-> f.to_account, amount |-> amount]>>
           b == [Called(a, "transfer") EXCEPT
                   !.sent = Some([entries |-> entries, reference |-> f.reference])]
       IN IF resp.ok
          THEN [b EXCEPT
                  !.history = Append(@, Line("transfer", resp.val, format_balance(amount),
                                             f.from_account, f.to_account, f.reference)),
                  !.transfer_form =
                     [TransferForm_default EXCEPT !.success = Some(Success(resp.val))]]
          ELSE [b EXCEPT !.transfer_form.error = Some(Failed(resp.val))]


\* ----------------------------------------------------------------- run_app

\* The answers the server gives during one iteration, and the build's choice
\* of overflow checks:
\*   plist        list_participants
\*   failing      the participants whose get_participant_accounts fails in load_accounts
\*   txs          list_transactions
\*   contracts    list_contracts(status = "active")
\*   now          chrono::Utc::now()
\*   detail_ok, renamed, detail_accounts_ok
\*                get_participant and get_participant_accounts in load_participant_detail
\*   transfer     transfer
NoAnswers ==
  [plist |-> Err, failing |-> {}, txs |-> Err, contracts |-> Err, now |-> 0,
   detail_ok |-> FALSE, renamed |-> FALSE, detail_accounts_ok |-> FALSE,
   transfer |-> [ok |-> FALSE, val |-> "rejected"], overflow_checks |-> FALSE]

\* get_participant as the server answers it.
get_participant(e, pid) ==
  IF e.detail_ok
  THEN Ok([id |-> pid,
           name |-> IF e.renamed /\ "Alicia" \in NamesOf(pid) THEN "Alicia"
                    ELSE Participant(pid).name])
  ELSE Err

\* get_participant_accounts as the server answers it in load_participant_detail.
get_participant_accounts(e, pid) ==
  IF e.detail_accounts_ok THEN Ok(AccountsOf(pid)) ELSE Err

\* A faulty variant of load_all: a failed list_participants ends the loading,
\* as `?` on each load would.
load_all_until_failure(a, e) ==
  IF e.plist.ok
  THEN load_future_events(
         load_transactions(load_accounts(load_participants(a, e.plist), e.failing), e.txs),
         e.contracts, e.now)
  ELSE load_participants(a, e.plist)

\* The four loads run_app starts with (lines 855-858), which the refresh key
\* repeats (lines 1003-1006).
load_all(a, e) ==
  load_future_events(
    load_transactions(load_accounts(load_participants(a, e.plist), e.failing), e.txs),
    e.contracts, e.now)

\* "Reload data when entering views": the block after next_view / prev_view in
\* the Tab, BackTab, Right and Left arms.
reload_on_enter(a, was_transfer, e) ==
  IF ~was_transfer /\ a.current_view = "Transfer" THEN load_accounts(a, e.failing)
  ELSE IF a.current_view = "Future" THEN load_future_events(a, e.contracts, e.now)
  ELSE a

\* A faulty variant of on_tab: Tab switches the view in every form state.
on_tab_always_navigates(a, e) ==
  reload_on_enter(next_view(a), a.current_view = "Transfer", e)

\* KeyCode::Tab
on_tab(a, e) ==
  IF a.current_view = "Transfer" /\ a.transfer_form.selected_field <= 1
  THEN next_suggestion(a)
  ELSE reload_on_enter(next_view(a), a.current_view = "Transfer", e)

\* KeyCode::BackTab
on_backtab(a, e) ==
  IF a.current_view = "Transfer" /\ a.transfer_form.selected_field <= 1
  THEN prev_suggestion(a)
  ELSE reload_on_enter(prev_view(a), a.current_view = "Transfer", e)

\* KeyCode::Right
on_right(a, e) == reload_on_enter(next_view(a), a.current_view = "Transfer", e)

\* KeyCode::Left
on_left(a, e) == reload_on_enter(prev_view(a), a.current_view = "Transfer", e)

\* A faulty variant of on_esc: Esc quits in the Transfer view too.
on_esc_always_quits(a) == [a EXCEPT !.running = FALSE]

\* KeyCode::Esc
on_esc(a) ==
  IF a.current_view = "Transfer"
  THEN [a EXCEPT !.transfer_form = TransferForm_default]
  ELSE [a EXCEPT !.running = FALSE]

\* KeyCode::Home
on_home(a) ==
  IF a.current_view = "Participants" THEN [a EXCEPT !.participant_state = Some(0)] ELSE a

\* KeyCode::End
on_end(a) ==
  IF a.current_view = "Participants" /\ Len(a.participants) > 0
  THEN [a EXCEPT !.participant_state = Some(Len(a.participants) - 1)]
  ELSE a

\* A faulty variant of on_enter: the drill-down opens the first row whatever
\* row is selected.
on_enter_first_row(a, e) ==
  IF a.current_view = "Transfer"
  THEN IF a.transfer_form.selected_field <= 1
       THEN accept_suggestion(a)
       ELSE execute_transfer(a, e.transfer, e.overflow_checks)
  ELSE IF a.current_view = "Participants"
  THEN IF is_some(a.participant_state) /\ 0 < Len(a.participants)
       THEN LET pid == a.participants[1].id
                b == load_participant_detail(a, pid, get_participant(e, pid),
                                             get_participant_accounts(e, pid))
            IN update_breadcrumb([b EXCEPT !.current_view = "ParticipantDetail"])
       ELSE a
  ELSE a

\* KeyCode::Enter
on_enter(a, e) ==
  IF a.current_view = "Transfer"
  THEN IF a.transfer_form.selected_field <= 1
       THEN accept_suggestion(a)
       ELSE execute_transfer(a, e.transfer, e.overflow_checks)
  ELSE IF a.current_view = "Participants"
  THEN IF is_some(a.participant_state) /\ a.participant_state[1] < Len(a.participants)
       THEN LET pid == a.participants[a.participant_state[1] + 1].id
                b == load_participant_detail(a, pid, get_participant(e, pid),
                                             get_participant_accounts(e, pid))
            IN update_breadcrumb([b EXCEPT !.current_view = "ParticipantDetail"])
       ELSE a
  ELSE a

\* The reload of the open detail, in the refresh and back arms.
reload_detail(a, e) ==
  IF is_some(a.participant_detail)
  THEN LET pid == a.participant_detail[1].id
       IN load_participant_detail(a, pid, get_participant(e, pid),
                                  get_participant_accounts(e, pid))
  ELSE a

\* A faulty variant of on_refresh: the open detail is not reloaded.
on_refresh_without_detail(a, e) == load_all(a, e)

\* KeyCode::Char('r') outside the Transfer view
on_refresh(a, e) ==
  LET b == load_all(a, e)
  IN IF b.current_view = "ParticipantDetail" THEN reload_detail(b, e) ELSE b

\* KeyCode::Char('b') with more than one breadcrumb segment
on_back(a, e) ==
  LET target_index == Len(a.breadcrumb) - 2
      b == navigate_to_breadcrumb(a, target_index)
  IN IF b.current_view = "ParticipantDetail" THEN reload_detail(b, e)
     ELSE IF b.current_view = "Participants" THEN load_participants(b, e.plist)
     ELSE IF b.current_view = "Future" THEN load_future_events(b, e.contracts, e.now)
     ELSE b

\* The KeyCode::Char arms of the match, in the order the match tries them: a
\* character whose arm's guard fails falls through to the text input arm.
on_char(a, c, e) ==
  IF c = "q" THEN [a EXCEPT !.running = FALSE]
  ELSE IF c = "1" /\ a.current_view # "Transfer" THEN goto_view(a, 0)
  ELSE IF c = "2" /\ a.current_view # "Transfer" THEN goto_view(a, 1)
  ELSE IF c = "3" /\ a.current_view # "Transfer"
       THEN load_accounts(goto_view(a, 2), e.failing)
  ELSE IF c = "4" /\ a.current_view # "Transfer"
       THEN load_future_events(goto_view(a, 3), e.contracts, e.now)
  ELSE IF c = "j" THEN select_next(a)
  ELSE IF c = "k" THEN select_prev(a)
  ELSE IF c = "r" /\ a.current_view # "Transfer" THEN on_refresh(a, e)
  ELSE IF c = "b" /\ Len(a.breadcrumb) > 1 THEN on_back(a, e)
  ELSE handle_char(a, c)

\* Where run_app is after an iteration that dispatched to the end of the loop
\* body: the running check at the end of the loop.
after_iteration(a) ==
  IF a.panicked THEN "panicked" ELSE IF ~a.running THEN "done" ELSE "loop"


\* What one specification lets the server answer and the user type: the sets
\* the actions draw an iteration's answers from.
\*   plists, failings, txs, contracts, nows, transfers, checks: as in NoAnswers
\*   details: the [detail_ok, renamed, detail_accounts_ok] of load_participant_detail
\*   chars: the characters the user types into the form
\*   fields: the form fields (0..3) the user types into and erases from
Results(values) == {Err} \cup {Ok(v) : v \in values}

Detail(ok, renamed, accounts_ok) ==
  [detail_ok |-> ok, renamed |-> renamed, detail_accounts_ok |-> accounts_ok]

\* The answers an iteration draws only when it makes the call.
NoDetail == Detail(FALSE, FALSE, FALSE)
DetailsIf(W, needed) == IF needed THEN W.details ELSE {NoDetail}
TransfersIf(W, needed) == IF needed THEN W.transfers ELSE {NoAnswers.transfer}

with_detail(e, d) ==
  [e EXCEPT !.detail_ok = d.detail_ok, !.renamed = d.renamed,
            !.detail_accounts_ok = d.detail_accounts_ok]

\* The characters without an arm of their own that the user may press.
OtherChars == {"x", "A", "5", "-"}

\* Whether pressing character c now types it into a form field, and whether
\* the user does so: the typed characters are the specification's and a field
\* takes at most MaxLen of them.
reaches_text_input(c) ==
  /\ c \notin {"q", "j", "k"}
  /\ c \in {"1", "2", "3", "4", "r"} => current_view = "Transfer"
  /\ c = "b" => Len(breadcrumb) <= 1
MayPress(W, c) ==
  (reaches_text_input(c) /\ current_view = "Transfer")
    => /\ c \in W.chars
       /\ transfer_form.selected_field \in W.fields
       /\ Len(field_text(transfer_form, transfer_form.selected_field)) < MaxLen

\* Backspace likewise edits only the fields the specification's user edits.
MayErase(W) == current_view = "Transfer" => transfer_form.selected_field \in W.fields

\* The MCP server before it read anything, with the lines `stdin` to come:
\*   stdin    the lines not read yet
\*   stdout   the responses written, in order
\*   request  the request handle_request is awaited for: Option
\*   read     the lines the loop is done with, in order
\*   ended    main returned
McpMain(lines) ==
  [stdin |-> lines, stdout |-> <<>>, request |-> None, read |-> <<>>, ended |-> FALSE]
NoInput == McpMain(<<>>)

\* No balance has been put to text yet.
NotRendered == [cli |-> None, mcp |-> None]

\* App::new
Init ==
  /\ current_view = "Participants"
  /\ running = TRUE
  /\ breadcrumb = <<Segment("Participants", "Participants", None)>>
  /\ participants = <<>>
  /\ participant_state = Some(0)
  /\ participant_detail = None
  /\ accounts = <<>>
  /\ transfer_form = TransferForm_default
  /\ history = <<>>
  /\ future_events = <<>>
  /\ loading = FALSE
  /\ pc = "start"
  /\ calls = <<>>
  /\ sent = None
  /\ from_view = "Participants"
  /\ in_flight = {}
  /\ pending = <<>>
  /\ acc_balance = 0
  /\ rendered = NotRendered
  /\ mcp = NoInput

\* run_app's initial data load, before the first render.
Startup(W) ==
  /\ pc = "start"
  /\ \E pl \in W.plists, f \in W.failings, t \in W.txs, c \in W.contracts, n \in W.nows :
       Commit(load_all(App, [NoAnswers EXCEPT !.plist = pl, !.failing = f, !.txs = t,
                                             !.contracts = c, !.now = n]))
  /\ pc' = "loop"

\* An iteration that dispatches nothing: the poll timed out, the event was not
\* a key press, or the key has no arm.
Idle ==
  /\ pc = "loop"
  /\ Commit(App)
  /\ pc' = after_iteration(App)

\* Ctrl+C: running is cleared and `continue` starts the next iteration, past
\* the running check at the end of the loop body.
KeyCtrlC ==
  /\ pc = "loop"
  /\ Commit([App EXCEPT !.running = FALSE])
  /\ pc' = "loop"

KeyQuit ==
  /\ pc = "loop"
  /\ LET a == on_char(App, "q", NoAnswers) IN Commit(a) /\ pc' = after_iteration(a)

KeyEsc ==
  /\ pc = "loop"
  /\ LET a == on_esc(App) IN Commit(a) /\ pc' = after_iteration(a)

\* The answers a view change may need: load_accounts' or load_future_events'.
EnterAnswers(W) ==
  {[NoAnswers EXCEPT !.failing = f, !.contracts = c, !.now = n] :
     f \in W.failings, c \in W.contracts, n \in W.nows}

KeyTab(W) ==
  /\ pc = "loop"
  /\ \E e \in EnterAnswers(W) :
       LET a == on_tab(App, e) IN Commit(a) /\ pc' = after_iteration(a)

KeyBackTab(W) ==
  /\ pc = "loop"
  /\ \E e \in EnterAnswers(W) :
       LET a == on_backtab(App, e) IN Commit(a) /\ pc' = after_iteration(a)

KeyRight(W) ==
  /\ pc = "loop"
  /\ \E e \in EnterAnswers(W) :
       LET a == on_right(App, e) IN Commit(a) /\ pc' = after_iteration(a)

KeyLeft(W) ==
  /\ pc = "loop"
  /\ \E e \in EnterAnswers(W) :
       LET a == on_left(App, e) IN Commit(a) /\ pc' = after_iteration(a)

\* The number keys '1'..'4'.
KeyNumber(W) ==
  /\ pc = "loop"
  /\ \E c \in {"1", "2", "3", "4"}, e \in EnterAnswers(W) :
       /\ MayPress(W, c)
       /\ LET a == on_char(App, c, e) IN Commit(a) /\ pc' = after_iteration(a)

\* KeyCode::Down | KeyCode::Char('j')
KeyDown ==
  /\ pc = "loop"
  /\ LET a == on_char(App, "j", NoAnswers) IN Commit(a) /\ pc' = after_iteration(a)

\* KeyCode::Up | KeyCode::Char('k')
KeyUp ==
  /\ pc = "loop"
  /\ LET a == on_char(App, "k", NoAnswers) IN Commit(a) /\ pc' = after_iteration(a)

KeyHome ==
  /\ pc = "loop"
  /\ LET a == on_home(App) IN Commit(a) /\ pc' = after_iteration(a)

KeyEnd ==
  /\ pc = "loop"
  /\ LET a == on_end(App) IN Commit(a) /\ pc' = after_iteration(a)

\* Enter submits the form only while the history has room for the line.
KeyEnter(W) ==
  /\ pc = "loop"
  /\ (current_view = "Transfer" /\ transfer_form.selected_field > 1)
       => Len(history) < MaxHistory
  /\ \E d \in DetailsIf(W, current_view = "Participants"),
        t \in TransfersIf(W, current_view = "Transfer"), k \in W.checks :
       LET a == on_enter(App, with_detail([NoAnswers EXCEPT !.transfer = t,
                                                            !.overflow_checks = k], d))
       IN Commit(a) /\ pc' = after_iteration(a)

KeyRefresh(W) ==
  /\ pc = "loop"
  /\ MayPress(W, "r")
  /\ \E pl \in W.plists, f \in W.failings, t \in W.txs, c \in W.contracts, n \in W.nows,
        d \in DetailsIf(W, current_view = "ParticipantDetail") :
       LET a == on_char(App, "r",
                        with_detail([NoAnswers EXCEPT !.plist = pl, !.failing = f, !.txs = t,
                                                      !.contracts = c, !.now = n], d))
       IN Commit(a) /\ pc' = after_iteration(a)

KeyBack(W) ==
  /\ pc = "loop"
  /\ MayPress(W, "b")
  /\ \E pl \in W.plists :
       LET a == on_char(App, "b", [NoAnswers EXCEPT !.plist = pl])
       IN Commit(a) /\ pc' = after_iteration(a)

\* Any other character.
KeyChar(W) ==
  /\ pc = "loop"
  /\ \E c \in OtherChars :
       /\ MayPress(W, c)
       /\ LET a == on_char(App, c, NoAnswers) IN Commit(a) /\ pc' = after_iteration(a)

KeyBackspace(W) ==
  /\ pc = "loop"
  /\ MayErase(W)
  /\ LET a == handle_backspace(App) IN Commit(a) /\ pc' = after_iteration(a)

\* ------------------------------------------------------- the specifications

Pending(id, time) == Contract(id, "Invoice", time, "pending", 0)

\* Navigation and loading: the whole loop and every key, over a server whose
\* participants, transactions and contracts come and go and whose account
\* lookups fail; the user moves through the form but types nothing into it.
World ==
  [plists |-> Results(ParticipantLists),
   failings |-> {ParticipantIds},
   txs |-> Results(TransactionLists),
   contracts |-> Results({<<Pending("c1", 2)>>}),
   nows |-> {1},
   details |-> {NoDetail, Detail(TRUE, FALSE, FALSE), Detail(TRUE, FALSE, TRUE)},
   transfers |-> {Ok("T1"), [ok |-> FALSE, val |-> "rejected"]},
   checks |-> {FALSE},
   chars |-> {},
   fields |-> {}]

Next ==
  \/ Startup(World)
  \/ Idle
  \/ KeyCtrlC
  \/ KeyQuit
  \/ KeyEsc
  \/ KeyTab(World)
  \/ KeyBackTab(World)
  \/ KeyRight(World)
  \/ KeyLeft(World)
  \/ KeyNumber(World)
  \/ KeyDown
  \/ KeyUp
  \/ KeyHome
  \/ KeyEnd
  \/ KeyEnter(World)
  \/ KeyRefresh(World)
  \/ KeyBack(World)
  \/ KeyChar(World)
  \/ KeyBackspace(World)

Spec == Init /\ [][Next]_vars


\* The Future view: the same loop and keys over a server that lists more
\* scheduled contracts than the view keeps, in no order, among contracts that
\* are not scheduled, at different times of day.
MaxNow == 2
ContractsListed ==
  <<Contract("c1", "Invoice", 3, "pending", 0),
    Contract("c2", "Subscription", 1, "active", 0),
    Contract("c3", "Generic", 2, "", 1),
    Contract("c4", "Invoice", 1, "pending", 0),
    Contract("c5", "Invoice", 2, "paid", 0),
    Contract("c6", "Subscription", 3, "active", 0),
    Contract("c7", "Generic", 2, "", 1),
    Contract("c8", "RevenueShare", 1, "active", 1)>>

WorldFuture ==
  [plists |-> {Ok(<<Participant("p1")>>)},
   failings |-> {ParticipantIds},
   txs |-> {Err},
   contracts |-> Results({ContractsListed, <<Pending("c1", 2)>>}),
   nows |-> 0..MaxNow,
   details |-> {NoDetail, Detail(TRUE, FALSE, TRUE)},
   transfers |-> {[ok |-> FALSE, val |-> "rejected"]},
   checks |-> {FALSE},
   chars |-> {},
   fields |-> {}]

NextFuture ==
  \/ Startup(WorldFuture)
  \/ Idle
  \/ KeyCtrlC
  \/ KeyQuit
  \/ KeyEsc
  \/ KeyTab(WorldFuture)
  \/ KeyBackTab(WorldFuture)
  \/ KeyRight(WorldFuture)
  \/ KeyLeft(WorldFuture)
  \/ KeyNumber(WorldFuture)
  \/ KeyDown
  \/ KeyUp
  \/ KeyHome
  \/ KeyEnd
  \/ KeyEnter(WorldFuture)
  \/ KeyRefresh(WorldFuture)
  \/ KeyBack(WorldFuture)
  \/ KeyChar(WorldFuture)
  \/ KeyBackspace(WorldFuture)

SpecFuture == Init /\ [][NextFuture]_vars

\* ---- The detail of a participant the server renames ----

\* The participants load, everything else fails, and get_participant may
\* answer with a name other than the one listed.
WorldDetail ==
  [plists |-> Results({<<Participant("p1")>>, <<Participant("p1"), Participant("p2")>>}),
   failings |-> {ParticipantIds},
   txs |-> {Err},
   contracts |-> {Err},
   nows |-> {1},
   details |-> {NoDetail, Detail(TRUE, FALSE, TRUE), Detail(TRUE, TRUE, TRUE)},
   transfers |-> {[ok |-> FALSE, val |-> "rejected"]},
   checks |-> {FALSE},
   chars |-> {},
   fields |-> {}]

NextDetail ==
  \/ Startup(WorldDetail)
  \/ Idle
  \/ KeyCtrlC
  \/ KeyQuit
  \/ KeyEsc
  \/ KeyTab(WorldDetail)
  \/ KeyBackTab(WorldDetail)
  \/ KeyRight(WorldDetail)
  \/ KeyLeft(WorldDetail)
  \/ KeyNumber(WorldDetail)
  \/ KeyDown
  \/ KeyUp
  \/ KeyHome
  \/ KeyEnd
  \/ KeyEnter(WorldDetail)
  \/ KeyRefresh(WorldDetail)
  \/ KeyBack(WorldDetail)
  \/ KeyChar(WorldDetail)
  \/ KeyBackspace(WorldDetail)

SpecDetail == Init /\ [][NextDetail]_vars

\* The transfer form: the loop stands in the Transfer view with a form the
\* user has filled in, rightly or wrongly; the user moves between the fields,
\* edits the amount, submits and cancels, and the server accepts or rejects.
FormAccounts == {<<>>, <<"a", "1">>, <<"b", "1">>}
\* The text of the least integer, e.g. "-128" when IntBits is 8.
MinAmountText == <<"-">> \o to_string(-INT_MIN)
AmountTexts == {<<>>, <<"x">>, <<"-">>, <<"5">>, <<"1", "x">>, <<"-", "5">>, MinAmountText}
ReferenceTexts == {<<>>, <<"x">>}

WorldTransfer ==
  [plists |-> {Err},
   failings |-> {ParticipantIds},
   txs |-> {Err},
   contracts |-> {Err},
   nows |-> {0},
   details |-> {NoDetail},
   transfers |-> {Ok("T1"), [ok |-> FALSE, val |-> "rejected"]},
   checks |-> BOOLEAN,
   chars |-> {"x", "5", "-"},
   fields |-> {2}]

InitTransfer ==
  /\ current_view = "Transfer"
  /\ running = TRUE
  /\ breadcrumb = <<Segment("Transfer", "Transfer", None)>>
  /\ participants = <<>>
  /\ participant_state = Some(0)
  /\ participant_detail = None
  /\ accounts = <<>>
  /\ \E from \in FormAccounts, to \in FormAccounts, amount \in AmountTexts,
        reference \in ReferenceTexts, field \in {2, 3} :
       transfer_form = [TransferForm_default EXCEPT
                          !.from_account = from, !.to_account = to, !.amount = amount,
                          !.reference = reference, !.selected_field = field]
  /\ history = <<>>
  /\ future_events = <<>>
  /\ loading = FALSE
  /\ pc = "loop"
  /\ calls = <<>>
  /\ sent = None
  /\ from_view = "Transfer"
  /\ in_flight = {}
  /\ pending = <<>>
  /\ acc_balance = 0
  /\ rendered = NotRendered
  /\ mcp = NoInput

NextTransfer ==
  \/ Idle
  \/ KeyEsc
  \/ KeyDown
  \/ KeyUp
  \/ KeyEnter(WorldTransfer)
  \/ KeyChar(WorldTransfer)
  \/ KeyBackspace(WorldTransfer)

SpecTransfer == InitTransfer /\ [][NextTransfer]_vars


\* The account suggestions: the loop stands in the Transfer view with the
\* account cache loaded or empty and account fields the user has typed a
\* filter into; the user moves between the fields, cycles and accepts
\* suggestions, types into and erases from the account fields, and leaves
\* and re-enters the view.
AccountCache == AccountsOf("p1") \o AccountsOf("p2")
FilterTexts == {<<>>, <<"B">>, <<"1">>, <<"x">>}

WorldSuggest ==
  [plists |-> {Ok(<<Participant("p1"), Participant("p2")>>)},
   failings |-> {{}, ParticipantIds},
   txs |-> {Err},
   contracts |-> {Err},
   nows |-> {0},
   details |-> {NoDetail},
   transfers |-> {[ok |-> FALSE, val |-> "rejected"]},
   checks |-> {FALSE},
   chars |-> {"x", "A"},
   fields |-> {0, 1}]

InitSuggest ==
  /\ current_view = "Transfer"
  /\ running = TRUE
  /\ breadcrumb = <<Segment("Transfer", "Transfer", None)>>
  /\ participants = <<Participant("p1"), Participant("p2")>>
  /\ participant_state = Some(0)
  /\ participant_detail = None
  /\ accounts \in {<<>>, AccountCache}
  /\ \E from \in FilterTexts, to \in FilterTexts, field \in 0..3 :
       transfer_form = [TransferForm_default EXCEPT
                          !.from_account = from, !.to_account = to,
                          !.selected_field = field]
  /\ history = <<>>
  /\ future_events = <<>>
  /\ loading = FALSE
  /\ pc = "loop"
  /\ calls = <<>>
  /\ sent = None
  /\ from_view = "Transfer"
  /\ in_flight = {}
  /\ pending = <<>>
  /\ acc_balance = 0
  /\ rendered = NotRendered
  /\ mcp = NoInput

NextSuggest ==
  \/ Idle
  \/ KeyEsc
  \/ KeyTab(WorldSuggest)
  \/ KeyBackTab(WorldSuggest)
  \/ KeyDown
  \/ KeyUp
  \/ KeyEnter(WorldSuggest)
  \/ KeyChar(WorldSuggest)
  \/ KeyBackspace(WorldSuggest)

SpecSuggest == InitSuggest /\ [][NextSuggest]_vars


\* The awaits of run_app one by one: an iteration is the dispatch of its key
\* (the synchronous part of the arm), then, for each load the arm awaits, the
\* call of its RPC and the return of the answer, then the end of the loop
\* body, from where the loop renders and polls again.

\* The initial data load and the first four awaits of the refresh arm.
startup_awaits ==
  <<"load_participants", "load_accounts", "load_transactions", "load_future_events">>

\* The awaits of the refresh arm.
refresh_awaits(a) ==
  startup_awaits
    \o (IF a.current_view = "ParticipantDetail" THEN <<"load_participant_detail">> ELSE <<>>)

\* The awaits of "Reload data when entering views".
enter_awaits(a, was_transfer) ==
  IF ~was_transfer /\ a.current_view = "Transfer" THEN <<"load_accounts">>
  ELSE IF a.current_view = "Future" THEN <<"load_future_events">>
  ELSE <<>>

\* A variant of next_call in which the calls are started together, as joined
\* futures or spawned tasks would be.
next_call_joined(queue, outstanding) ==
  {queue[i] : i \in 1..Len(queue)} \ outstanding

\* `.await`: the calls of an arm are made one after the other, each when the
\* one before it has returned.
next_call(queue, outstanding) ==
  IF queue # <<>> /\ outstanding = {} THEN {queue[1]} ELSE {}

\* The awaited call `name` returning, with the server's answers e.
perform(a, name, e) ==
  CASE name = "load_participants" -> load_participants(a, e.plist)
    [] name = "load_accounts" -> load_accounts(a, e.failing)
    [] name = "load_transactions" -> load_transactions(a, e.txs)
    [] name = "load_future_events" -> load_future_events(a, e.contracts, e.now)
    [] name = "load_participant_detail" -> reload_detail(a, e)

app_vars == <<current_view, running, breadcrumb, participants, participant_state,
              participant_detail, accounts, transfer_form, history, future_events,
              loading, calls, sent, from_view>>

StepStartup ==
  /\ pc = "start"
  /\ pc' = "awaiting"
  /\ pending' = startup_awaits
  /\ UNCHANGED <<app_vars, in_flight, acc_balance, rendered, mcp>>

StepKeyRefresh ==
  /\ pc = "loop"
  /\ current_view # "Transfer"
  /\ Assign(App)
  /\ pc' = "awaiting"
  /\ pending' = refresh_awaits(App)
  /\ UNCHANGED in_flight

StepKeyRight ==
  /\ pc = "loop"
  /\ LET a == next_view(App)
     IN Assign(a) /\ pending' = enter_awaits(a, current_view = "Transfer")
  /\ pc' = "awaiting"
  /\ UNCHANGED in_flight

StepKeyQuit ==
  /\ pc = "loop"
  /\ Assign([App EXCEPT !.running = FALSE])
  /\ pc' = "awaiting"
  /\ pending' = <<>>
  /\ UNCHANGED in_flight

StepCall ==
  /\ pc = "awaiting"
  /\ \E c \in next_call(pending, in_flight) : in_flight' = in_flight \cup {c}
  /\ UNCHANGED <<app_vars, pc, pending, acc_balance, rendered, mcp>>

StepReturn(W) ==
  /\ pc = "awaiting"
  /\ \E c \in in_flight, pl \in W.plists, f \in W.failings, t \in W.txs,
        k \in W.contracts, n \in W.nows :
       /\ Assign(perform([App EXCEPT !.calls = calls], c,
                         [NoAnswers EXCEPT !.plist = pl, !.failing = f, !.txs = t,
                                           !.contracts = k, !.now = n]))
       /\ in_flight' = in_flight \ {c}
       /\ pending' = SelectSeq(pending, LAMBDA x : x # c)
  /\ UNCHANGED pc

\* The end of the loop body: the running check, then the next render and poll.
StepEndOfIteration ==
  /\ pc = "awaiting"
  /\ pending = <<>>
  /\ in_flight = {}
  /\ pc' = after_iteration(App)
  /\ UNCHANGED <<app_vars, in_flight, pending, acc_balance, rendered, mcp>>

WorldSteps ==
  [plists |-> Results({<<Participant("p1")>>}),
   failings |-> {{}, ParticipantIds},
   txs |-> Results(TransactionLists),
   contracts |-> Results({<<Pending("c1", 2)>>}),
   nows |-> {1}]

NextSteps ==
  \/ StepStartup
  \/ StepKeyRefresh
  \/ StepKeyRight
  \/ StepKeyQuit
  \/ StepCall
  \/ StepReturn(WorldSteps)
  \/ StepEndOfIteration

SpecSteps == Init /\ [][NextSteps]_vars

\* ---- The balances put to text ----

\* The balances range over -MaxCents..MaxCents and the documented example.
MaxCents == 250
Cents == (-MaxCents .. MaxCents) \cup {150023, -150023}

InitBalance ==
  /\ current_view = "Participants"
  /\ running = TRUE
  /\ breadcrumb = <<Segment("Participants", "Participants", None)>>
  /\ participants = <<>>
  /\ participant_state = Some(0)
  /\ participant_detail = None
  /\ accounts = <<>>
  /\ transfer_form = TransferForm_default
  /\ history = <<>>
  /\ future_events = <<>>
  /\ loading = FALSE
  /\ pc = "start"
  /\ calls = <<>>
  /\ sent = None
  /\ from_view = "Participants"
  /\ in_flight = {}
  /\ pending = <<>>
  /\ acc_balance \in Cents
  /\ rendered = NotRendered
  /\ mcp = NoInput

\* An account line of the CLI's detail view: grpc::format_balance(acc.balance)
RenderCli ==
  /\ rendered' = [rendered EXCEPT !.cli = Some(format_balance(acc_balance))]
  /\ UNCHANGED <<app_vars, pc, in_flight, pending, acc_balance, mcp>>

\* get_balance of the MCP server: "balance": format_balance(balance)
RenderMcp ==
  /\ rendered' = [rendered EXCEPT !.mcp = Some(format_balance_mcp(acc_balance))]
  /\ UNCHANGED <<app_vars, pc, in_flight, pending, acc_balance, mcp>>

NextBalance ==
  \/ RenderCli
  \/ RenderMcp

SpecBalance == InitBalance /\ [][NextBalance]_vars

\* ---- The MCP server's loop over stdin ----

\* A line of stdin.  kind is what becomes of it before any request is
\* handled: "invalid" (not UTF-8: lines() yields an Err), "empty", "garbage"
\* (serde_json::from_str::<JsonRpcRequest> fails) or "request" (it gives a
\* JsonRpcRequest with this id, method and params).  A method is the sequence
\* of its parts, each with its trailing '/'; params tells whether it is Some.
Line_of(kind, id, method, params) ==
  [kind |-> kind, id |-> id, method |-> method, params |-> params]
JsonRpcRequest(id, method, params) == Line_of("request", id, method, params)

\* The lines a client may send.
InputLines ==
  {Line_of("invalid", None, <<>>, FALSE),
   Line_of("empty", None, <<>>, FALSE),
   Line_of("garbage", None, <<>>, FALSE),
   JsonRpcRequest(Some("1"), <<"initialize">>, FALSE),
   JsonRpcRequest(Some("2"), <<"tools/", "list">>, FALSE),
   JsonRpcRequest(Some("1"), <<"tools/", "call">>, TRUE),
   JsonRpcRequest(Some("2"), <<"tools/", "call">>, FALSE),
   JsonRpcRequest(None, <<"tools/", "call">>, TRUE),
   JsonRpcRequest(Some("1"), <<"notifications/", "initialized">>, FALSE),
   JsonRpcRequest(None, <<"notifications/", "initialized">>, FALSE),
   JsonRpcRequest(Some("2"), <<"notifications">>, FALSE),
   JsonRpcRequest(None, <<"ping">>, FALSE)}

\* str::starts_with, for a prefix that is one part.
starts_with(method, prefix) == Len(method) >= 1 /\ method[1] = prefix

JsonRpcResponse(id, result, error) == [id |-> id, result |-> result, error |-> error]
JsonRpcError(code, message) == [code |-> code, message |-> message]

\* A faulty variant of handle_request: a notification is answered like a request.
handle_request_answers_notifications(request, tool) ==
  LET id == unwrap_or(request.id, "null")
      result ==
        CASE request.method = <<"initialize">> -> Ok("server_info")
          [] request.method = <<"tools/", "list">> -> Ok("tools_list")
          [] request.method = <<"tools/", "call">> ->
               IF request.params
               THEN IF tool.ok THEN Ok("content") ELSE Ok("content, isError")
               ELSE [ok |-> FALSE, val |-> "Missing params"]
          [] OTHER -> [ok |-> FALSE, val |-> "Method not found"]
  IN Some(IF result.ok
          THEN JsonRpcResponse(id, Some(result.val), None)
          ELSE JsonRpcResponse(id, None, Some(JsonRpcError(-32601, result.val))))

\* handle_request; tool is what handle_tool_call answers when it is called.
handle_request(request, tool) ==
  IF starts_with(request.method, "notifications/") THEN None
  ELSE
    LET id == unwrap_or(request.id, "null")
        result ==
          CASE request.method = <<"initialize">> -> Ok("server_info")
            [] request.method = <<"tools/", "list">> -> Ok("tools_list")
            [] request.method = <<"tools/", "call">> ->
                 IF request.params
                 THEN IF tool.ok THEN Ok("content") ELSE Ok("content, isError")
                 ELSE [ok |-> FALSE, val |-> "Missing params"]
            [] OTHER -> [ok |-> FALSE, val |-> "Method not found"]
    IN Some(IF result.ok
            THEN JsonRpcResponse(id, Some(result.val), None)
            ELSE JsonRpcResponse(id, None, Some(JsonRpcError(-32601, result.val))))

\* The client sends at most MaxLines lines.
MaxLines == 3
Inputs == UNION {[1..n -> InputLines] : n \in 0..MaxLines}

InitMcp ==
  /\ current_view = "Participants"
  /\ running = TRUE
  /\ breadcrumb = <<Segment("Participants", "Participants", None)>>
  /\ participants = <<>>
  /\ participant_state = Some(0)
  /\ participant_detail = None
  /\ accounts = <<>>
  /\ transfer_form = TransferForm_default
  /\ history = <<>>
  /\ future_events = <<>>
  /\ loading = FALSE
  /\ pc = "start"
  /\ calls = <<>>
  /\ sent = None
  /\ from_view = "Participants"
  /\ in_flight = {}
  /\ pending = <<>>
  /\ acc_balance = 0
  /\ rendered = NotRendered
  /\ \E lines \in Inputs : mcp = McpMain(lines)

\* One turn of `for line in stdin.lock().lines()` up to the call of
\* handle_request: `line?` ends main on a read error, an empty line is
\* skipped, a line that does not parse is answered with the parse error.
ReadLine ==
  /\ ~mcp.ended
  /\ mcp.request = None
  /\ mcp.stdin # <<>>
  /\ LET line == Head(mcp.stdin)
         rest == Tail(mcp.stdin)
     IN mcp' =
          CASE line.kind = "invalid" -> [mcp EXCEPT !.stdin = rest, !.ended = TRUE]
            [] line.kind = "empty" ->
                 [mcp EXCEPT !.stdin = rest, !.read = Append(@, line)]
            [] line.kind = "garbage" ->
                 [mcp EXCEPT !.stdin = rest, !.read = Append(@, line),
                             !.stdout = Append(@, JsonRpcResponse("null", None,
                                                     Some(JsonRpcError(-32700, "Parse error"))))]
            [] line.kind = "request" -> [mcp EXCEPT !.stdin = rest, !.request = Some(line)]
  /\ UNCHANGED <<app_vars, pc, in_flight, pending, acc_balance, rendered>>

\* handle_request returns and its response, if any, is written and flushed.
Respond ==
  /\ mcp.request # None
  /\ \E tool \in {Ok("tool result"), Err} :
       LET response == handle_request(mcp.request[1], tool)
       IN mcp' = [mcp EXCEPT !.request = None,
                             !.read = Append(@, mcp.request[1]),
                             !.stdout = IF response = None THEN @
                                        ELSE Append(@, response[1])]
  /\ UNCHANGED <<app_vars, pc, in_flight, pending, acc_balance, rendered>>

\* The end of stdin: the loop is left and main returns Ok.
EndOfInput ==
  /\ ~mcp.ended
  /\ mcp.request = None
  /\ mcp.stdin = <<>>
  /\ mcp' = [mcp EXCEPT !.ended = TRUE]
  /\ UNCHANGED <<app_vars, pc, in_flight, pending, acc_balance, rendered>>

NextMcp ==
  \/ ReadLine
  \/ Respond
  \/ EndOfInput

SpecMcp == InitMcp /\ [][NextMcp]_vars


\* ------------------------------------------------------------------ claims

\* Greatest index tried for goto_view.
MaxIndex == 5

InLog(log, name) == \E i \in 1..Len(log) : log[i] = name
FlatNavigated ==
  InLog(calls, "next_view") \/ InLog(calls, "prev_view") \/ InLog(calls, "goto_view")

FlatViews == {"Participants", "Transfer", "History", "Future"}
FlatPos(v) ==
  CASE v = "Participants" -> 0 [] v = "Transfer" -> 1 [] v = "History" -> 2
    [] v = "Future" -> 3
FlatAt(i) ==
  CASE i = 0 -> "Participants" [] i = 1 -> "Transfer" [] i = 2 -> "History"
    [] i = 3 -> "Future"

C2_ThreeNextViewsReturn ==
  current_view = "Transfer" =>
    next_view(next_view(next_view(App))).current_view = "Transfer"

\* C2 as amended: from Transfer, next_view goes to History, Future,
\* Participants and, with the fourth call, back to Transfer.
C2_FourNextViewsReturn ==
  current_view = "Transfer" =>
    LET n1 == next_view(App)
        n2 == next_view(n1)
        n3 == next_view(n2)
    IN /\ n1.current_view = "History"
       /\ n2.current_view = "Future"
       /\ n3.current_view = "Participants"
       /\ next_view(n3).current_view = "Transfer"

\* C2's case: Transfer is current and next_view brought the loop there.
C2_Witness ==
  InLog(calls, "next_view") /\ from_view = "Participants" /\ current_view = "Transfer"

C4_FlatNavigationDisallowedInDetail ==
  from_view = "ParticipantDetail" =>
    /\ FlatNavigated => current_view = "ParticipantDetail"
    /\ current_view # "ParticipantDetail" =>
         InLog(calls, "navigate_to_breadcrumb") /\ current_view = "Participants"

\* C4 as amended: from ParticipantDetail flat navigation works as from the
\* first tab: next_view lands on Transfer, prev_view on Future, and the number
\* keys on their flat view ('1' or '2': Participants or Transfer; '3', which
\* also loads the accounts: History; '4', which also loads the future events:
\* Future); apart from flat navigation the only iteration that leaves
\* ParticipantDetail is back-navigation by navigate_to_breadcrumb, which lands
\* on Participants.
C4_FlatNavigationFromDetail ==
  from_view = "ParticipantDetail" =>
    /\ InLog(calls, "next_view") => current_view = "Transfer"
    /\ InLog(calls, "prev_view") => current_view = "Future"
    /\ calls = <<"goto_view">> => current_view \in {"Participants", "Transfer"}
    /\ calls = <<"goto_view", "load_accounts">> => current_view = "History"
    /\ calls = <<"goto_view", "load_future_events">> => current_view = "Future"
    /\ InLog(calls, "goto_view") => Len(calls) <= 2
    /\ current_view # "ParticipantDetail" =>
         \/ FlatNavigated
         \/ InLog(calls, "navigate_to_breadcrumb") /\ current_view = "Participants"

\* C4's case: next_view left ParticipantDetail for Transfer.
C4_Witness ==
  /\ from_view = "ParticipantDetail"
  /\ InLog(calls, "next_view")
  /\ current_view = "Transfer"

\* C5: the breadcrumb has at least one segment and its last segment's view is
\* the current view.
C5_BreadcrumbEndsAtCurrentView ==
  /\ Len(breadcrumb) >= 1
  /\ breadcrumb[Len(breadcrumb)].view = current_view

\* The trail C6 states for each view.
TrailOf(view, detail) ==
  LET root == [label |-> "Participants", view |-> "Participants", context |-> <<>>]
  IN CASE view = "Participants" -> <<root>>
       [] view = "ParticipantDetail" /\ detail = <<>> -> <<root>>
       [] view = "ParticipantDetail" /\ detail # <<>> ->
            <<root, [label |-> detail[1].name, view |-> "ParticipantDetail",
                     context |-> <<detail[1].id>>]>>
       [] view \in {"Transfer", "History", "Future"} ->
            <<[label |-> view, view |-> view, context |-> <<>>]>>

\* C6: for every current view and the detail loaded, whatever the breadcrumb
\* held before, update_breadcrumb yields the trail of TrailOf, changes nothing
\* but the breadcrumb, and a second call yields the same trail again.
C6_BreadcrumbDerivation ==
  \A view \in Views, old \in {<<>>, breadcrumb, breadcrumb \o breadcrumb} :
    LET a == [App EXCEPT !.current_view = view, !.breadcrumb = old]
        once == update_breadcrumb(a)
    IN /\ once.breadcrumb = TrailOf(view, participant_detail)
       /\ once = [a EXCEPT !.breadcrumb = once.breadcrumb]
       /\ update_breadcrumb(once) = once

\* C6's case: the trail of a loaded detail, built after the drill-down.
C6_Witness ==
  /\ current_view = "ParticipantDetail"
  /\ is_some(participant_detail)
  /\ Len(breadcrumb) = 2
  /\ breadcrumb[2].context = Some(participant_detail[1].id)

\* C7: an iteration that changes the view from another view to Transfer calls
\* load_accounts.
C7_EnteringTransferLoadsAccounts ==
  (from_view # "Transfer" /\ current_view = "Transfer") => InLog(calls, "load_accounts")

\* C8: an iteration that makes Future the current view (coming from another
\* view, or by a flat navigation call) calls load_future_events; the
\* future_events list, which only load_future_events writes, is sorted
\* ascending by execution_time and has at most 5 entries, also when more than
\* 5 scheduled contracts were listed.
C8_FutureViewReloadsSortedTop5 ==
  /\ (current_view = "Future" /\ (from_view # "Future" \/ FlatNavigated))
       => InLog(calls, "load_future_events")
  /\ Len(future_events) <= 5
  /\ \A i \in 1..(Len(future_events) - 1) :
       future_events[i].execution_time <= future_events[i + 1].execution_time

\* C8's case: entering Future loaded six scheduled contracts, listed out of
\* order, and kept the five earliest in order.
C8_Witness ==
  /\ from_view = "History"
  /\ current_view = "Future"
  /\ InLog(calls, "load_future_events")
  /\ [i \in 1..Len(future_events) |-> future_events[i].contract_id]
       = <<"c2", "c4", "c3", "c7", "c1">>

\* The refresh key pressed while the server fails the named call.
RefreshFailing(call) ==
  KeyRefresh([World EXCEPT ![call] = {Err}])

\* C9: a reload whose RPC fails leaves its list as it was: participants after
\* a failed list_participants, accounts when every get_participant_accounts
\* fails, history after a failed list_transactions, future_events after a
\* failed list_contracts.
C9_FailedReloadKeepsList ==
  [][/\ RefreshFailing("plists") => participants' = participants
     /\ KeyRefresh(World) => accounts' = accounts
     /\ RefreshFailing("txs") => history' = history
     /\ RefreshFailing("contracts") => future_events' = future_events]_vars


\* C10: whatever the server would answer, execute_transfer on a form whose
\* amount does not parse sets error to "Invalid amount" (clearing success),
\* calls no remote transfer, and leaves from_account, to_account, amount,
\* reference, selected_field and history as they were; with both accounts
\* filled in, replacing only the amount by a number and submitting again
\* reaches the remote transfer with the accounts and reference of the form.
C10_InvalidAmountKeepsForm ==
  /\ \A t \in WorldTransfer.transfers, k \in BOOLEAN :
       parse_int(transfer_form.amount) = None =>
         LET a == execute_transfer(App, t, k)
             again == execute_transfer([a EXCEPT !.transfer_form.amount = <<"5">>], t, k)
         IN /\ a.transfer_form = [transfer_form EXCEPT !.error = Some(InvalidAmount),
                                                       !.success = None]
            /\ ~InLog(a.calls, "transfer")
            /\ a.sent = None
            /\ a.history = history
            /\ (transfer_form.from_account # <<>> /\ transfer_form.to_account # <<>>) =>
                 /\ InLog(again.calls, "transfer")
                 /\ again.sent =
                      Some([entries |-> <<[account_id |-> transfer_form.from_account,
                                           amount |-> -5],
                                          [account_id |-> transfer_form.to_account,
                                           amount |-> 5]>>,
                            reference |-> transfer_form.reference])
  /\ (InLog(calls, "execute_transfer") /\ transfer_form.error = Some(InvalidAmount)) =>
       /\ ~InLog(calls, "transfer")
       /\ sent = None
       /\ parse_int(transfer_form.amount) = None

\* C10's case: a form with both accounts and an amount that does not parse
\* was submitted and rejected as it stands.
C10_Witness ==
  /\ InLog(calls, "execute_transfer")
  /\ transfer_form.error = Some(InvalidAmount)
  /\ transfer_form.amount = <<"1", "x">>
  /\ transfer_form.from_account # <<>>
  /\ transfer_form.to_account # <<>>


\* Whether execute_transfer, called now, passes validation and reaches the
\* remote transfer in a build with (k) or without overflow checks.
PassesValidation(k) ==
  /\ parse_int(transfer_form.amount) # None
  /\ transfer_form.from_account # <<>>
  /\ transfer_form.to_account # <<>>
  /\ ~(k /\ parse_int(transfer_form.amount) = Some(INT_MIN))

\* C11: when execute_transfer passes validation and the remote transfer
\* answers with transaction id T, history grows by exactly one line holding
\* the formatted amount, the from account, the to account, the reference and
\* T; success is a message containing T, error is empty and every other form
\* field is at its default; nothing else of the App changes.  The same is seen
\* after the Enter key: the last history line is the one of the request sent.
C11_AcceptedTransferRecordedFormReset ==
  /\ \A k \in BOOLEAN, T \in {"T1", "T2"} :
       PassesValidation(k) =>
         LET a == execute_transfer(App, Ok(T), k)
             line == a.history[Len(a.history)]
         IN /\ Len(a.history) = Len(history) + 1
            /\ SubSeq(a.history, 1, Len(history)) = history
            /\ line.tx = T
            /\ line.from = transfer_form.from_account
            /\ line.to = transfer_form.to_account
            /\ line.reference = transfer_form.reference
            /\ transfer_form.amount = <<"5">> => line.amount = <<"0", ".", "0", "5">>
            /\ transfer_form.amount = <<"-", "5">> => line.amount = <<"-", "0", ".", "0", "5">>
            /\ a.transfer_form =
                 [from_account |-> <<>>, to_account |-> <<>>, amount |-> <<>>,
                  reference |-> <<>>, selected_field |-> 0, error |-> <<>>,
                  success |-> <<<<"Success! TX: ", T>>>>,
                  suggestion_index |-> <<>>, show_suggestions |-> FALSE]
            /\ a = [App EXCEPT !.history = a.history, !.transfer_form = a.transfer_form,
                               !.calls = <<"execute_transfer", "transfer">>,
                               !.sent = a.sent]
  /\ (InLog(calls, "transfer") /\ transfer_form.success # <<>>) =>
       /\ transfer_form = [TransferForm_default EXCEPT !.success = transfer_form.success]
       /\ Len(history) >= 1
       /\ LET line == history[Len(history)]
          IN /\ transfer_form.success = <<<<"Success! TX: ", line.tx>>>>
             /\ line.from = sent[1].entries[1].account_id
             /\ line.to = sent[1].entries[2].account_id
             /\ line.reference = sent[1].reference

\* C11's case: a transfer of 5 between two accounts was accepted as T1 and its
\* line is the first of the history.
C11_Witness ==
  /\ InLog(calls, "transfer")
  /\ transfer_form.success = Some(Success("T1"))
  /\ Len(history) = 1
  /\ history[1].amount = <<"0", ".", "0", "5">>
  /\ history[1].tx = "T1"

\* C12: when the remote transfer fails, execute_transfer sets error to a
\* message embedding the failure, leaves success empty and every other field
\* of the form (from_account, to_account, amount, reference, selected_field and
\* the suggestion state) as it was, and appends nothing to history.  The same
\* is seen after the Enter key: the form still holds the request that was sent.
C12_RejectedTransferKeepsForm ==
  /\ \A k \in BOOLEAN, e \in {"rejected", "unavailable"} :
       PassesValidation(k) =>
         LET a == execute_transfer(App, [ok |-> FALSE, val |-> e], k)
         IN /\ a.transfer_form = [transfer_form EXCEPT !.error = <<<<"Failed: ", e>>>>,
                                                       !.success = <<>>]
            /\ a.history = history
            /\ a = [App EXCEPT !.transfer_form = a.transfer_form,
                               !.calls = <<"execute_transfer", "transfer">>,
                               !.sent = a.sent]
  /\ (InLog(calls, "transfer") /\ transfer_form.error # <<>>) =>
       /\ transfer_form.error = <<<<"Failed: ", "rejected">>>>
       /\ transfer_form.success = <<>>
       /\ transfer_form.from_account = sent[1].entries[1].account_id
       /\ transfer_form.to_account = sent[1].entries[2].account_id
       /\ transfer_form.reference = sent[1].reference
       /\ parse_int(transfer_form.amount) = Some(sent[1].entries[2].amount)

\* C12's case: a transfer of 5 with reference x was sent and rejected.
C12_Witness ==
  /\ InLog(calls, "transfer")
  /\ transfer_form.error = Some(Failed("rejected"))
  /\ transfer_form.amount = <<"5">>
  /\ transfer_form.reference = <<"x">>
  /\ history = <<>>

\* C13: in every reachable state at most one of the form's error and success
\* is populated.
C13_ErrorAndSuccessExclusive ==
  transfer_form.error = <<>> \/ transfer_form.success = <<>>

\* C13's case: a submission failed on a form whose previous submission had
\* succeeded (its line is in the history), and only the error is shown.
C13_Witness ==
  /\ InLog(calls, "execute_transfer")
  /\ Len(history) >= 1
  /\ transfer_form.error # <<>>
  /\ transfer_form.success = <<>>

\* C14: the remote transfer is invoked only with both accounts filled in and a
\* parsed amount, with exactly the two entries (from_account, -amount) and
\* (to_account, +amount), whose amounts sum to zero, for every amount that
\* parses, the least integer included, and no submission ends in a panic.
C14_TransferEntriesBalance ==
  /\ pc # "panicked"
  /\ InLog(calls, "transfer") <=> sent # <<>>
  /\ sent # <<>> =>
       LET entries == sent[1].entries
       IN /\ Len(entries) = 2
          /\ entries[1].account_id # <<>>
          /\ entries[2].account_id # <<>>
          /\ entries[1].amount = -entries[2].amount
          /\ entries[1].amount + entries[2].amount = 0


\* C15: accept_suggestion, in every state, moves selected_field on by one
\* (0 to 1, 1 to 2, 2 to 3, 3 to 0), clears suggestion_index and sets
\* show_suggestions to false, whether or not a suggestion existed or was
\* selected, and changes nothing else, no field text in particular; after an
\* Enter that called it the suggestion state is cleared.
C15_AcceptAlwaysAdvances ==
  /\ LET a == accept_suggestion(App)
         field == transfer_form.selected_field
     IN /\ a.transfer_form =
             [transfer_form EXCEPT
                !.selected_field = CASE field = 0 -> 1 [] field = 1 -> 2
                                     [] field = 2 -> 3 [] field = 3 -> 0,
                !.suggestion_index = <<>>,
                !.show_suggestions = FALSE]
        /\ a = [App EXCEPT !.transfer_form = a.transfer_form,
                           !.calls = <<"accept_suggestion">>]
  /\ InLog(calls, "accept_suggestion") =>
       /\ transfer_form.suggestion_index = <<>>
       /\ ~transfer_form.show_suggestions
       /\ transfer_form.selected_field \in {1, 2}

\* C15's case: Enter in the from field, whose text matches no account of the
\* loaded cache, moved the focus to the to field and kept the text.
C15_Witness ==
  /\ calls = <<"accept_suggestion">>
  /\ Len(accounts) = 3
  /\ transfer_form.from_account = <<"x">>
  /\ transfer_form.selected_field = 1

\* Whether needle occurs in hay, letters compared without regard to case.
OccursIgnoringCase(needle, hay) ==
  \E k \in 0..(Len(hay) - Len(needle)) :
    \A m \in 1..Len(needle) : lower_char(hay[k + m]) = lower_char(needle[m])

\* C16: with an account field focused, get_account_suggestions returns, in
\* the cache's order, exactly the accounts for which the field's text is empty
\* or occurs, ignoring case, in the account id or in the account type label;
\* with the amount or the reference focused it returns nothing.  With the
\* cache [a1 Operating, b1 Operating, a2 Receivables] the text "B" yields b1
\* and a2, and "1" yields a1 and b1.
C16_SuggestionsFilterInOrder ==
  LET got == get_account_suggestions(App)
      field == transfer_form.selected_field
      text == IF field = 0 THEN transfer_form.from_account ELSE transfer_form.to_account
      Matches(acc) ==
        \/ text = <<>>
        \/ OccursIgnoringCase(text, acc.id)
        \/ OccursIgnoringCase(text, acc.account_type)
  IN /\ field \in {2, 3} => got = <<>>
     /\ field \in {0, 1} => got = SelectSeq(accounts, Matches)
     /\ (field \in {0, 1} /\ Len(accounts) = 3) =>
          /\ text = <<"B">> => [i \in 1..Len(got) |-> got[i].id] = <<<<"b", "1">>, <<"a", "2">>>>
          /\ text = <<"1">> => [i \in 1..Len(got) |-> got[i].id] = <<<<"a", "1">>, <<"b", "1">>>>
          /\ text = <<"x">> => got = <<>>

\* C16's case: the user typed "A" into the from field over the loaded cache;
\* the suggestions are shown and all three accounts match, b1 by its type label.
C16_Witness ==
  /\ current_view = "Transfer"
  /\ from_view = "Transfer"
  /\ transfer_form.selected_field = 0
  /\ transfer_form.from_account = <<"A">>
  /\ transfer_form.show_suggestions
  /\ Len(accounts) = 3
  /\ Len(get_account_suggestions(App)) = 3

\* C17: in the Transfer view with an account field focused and n > 0 live
\* matches, next_suggestion lands on index 0 from none and on (i + 1) mod n
\* from i, prev_suggestion lands on n - 1 from none or from 0 and on i - 1
\* otherwise; the index they land on is one of the n matches, the focused
\* field's text becomes the id of that match, and show_suggestions is true.
C17_SuggestionCycling ==
  LET matches == get_account_suggestions(App)
      n == Len(matches)
      field == transfer_form.selected_field
      index == transfer_form.suggestion_index
      forward == IF index = <<>> THEN 0 ELSE (index[1] + 1) % n
      backward == IF index = <<>> \/ index = <<0>> THEN n - 1 ELSE index[1] - 1
      nxt == next_suggestion(App).transfer_form
      prv == prev_suggestion(App).transfer_form
  IN (current_view = "Transfer" /\ field \in {0, 1} /\ n > 0) =>
       /\ nxt.suggestion_index = <<forward>>
       /\ forward < n
       /\ field_text(nxt, field) = matches[forward + 1].id
       /\ nxt.show_suggestions
       /\ prv.suggestion_index = <<backward>>
       /\ backward < n
       /\ field_text(prv, field) = matches[backward + 1].id
       /\ prv.show_suggestions


\* C18: right after an iteration that changed the view from another view to
\* Transfer the form is the empty form: no field text, selected_field 0, and
\* no suggestion, error or success state.
C18_FormEmptyOnEntry ==
  (from_view # "Transfer" /\ current_view = "Transfer") =>
    transfer_form =
      [from_account |-> <<>>, to_account |-> <<>>, amount |-> <<>>, reference |-> <<>>,
       selected_field |-> 0, error |-> <<>>, success |-> <<>>,
       suggestion_index |-> <<>>, show_suggestions |-> FALSE]

\* C19: once Ctrl+C has cleared the stop flag the loop dispatches nothing
\* more: while running is false no step changes any application state.
C19_InterruptStopsLoop ==
  [][~running =>
       UNCHANGED <<current_view, running, breadcrumb, participants, participant_state,
                   participant_detail, accounts, transfer_form, history,
                   future_events, loading>>]_vars


\* C20: the loop is strictly sequential: at most one awaited call is
\* outstanding at any time, and it is the first of those the iteration has
\* still to make; where the loop renders and polls for the next key (and
\* before it starts and after it returns) no call is outstanding and none of
\* the iteration's awaits is left; the loads of the initial load and of a
\* refresh have returned in the order of the source.
C20_StrictlySequential ==
  /\ Cardinality(in_flight) <= 1
  /\ \A c \in in_flight : pending # <<>> /\ pending[1] = c
  /\ pc \in {"start", "loop", "done"} => in_flight = {} /\ pending = <<>>
  /\ \A i \in 1..Len(calls), j \in 1..Len(calls) :
       (\/ (calls[i] = "load_participants" /\ calls[j] = "load_accounts")
        \/ (calls[i] = "load_accounts" /\ calls[j] = "load_transactions")
        \/ (calls[i] = "load_transactions" /\ calls[j] = "load_future_events"))
       => i < j

\* C20's case: in a refresh, list_transactions is outstanding after the two
\* loads before it returned and with load_future_events still to come.
C20_Witness ==
  /\ pc = "awaiting"
  /\ running
  /\ in_flight = {"load_transactions"}
  /\ pending = <<"load_transactions", "load_future_events">>
  /\ calls = <<"load_participants", "load_accounts">>
  /\ current_view = "History"


\* The four loads of the initial load and of a refresh, in the source's order.
FourLoads ==
  <<"load_participants", "load_accounts", "load_transactions", "load_future_events">>

balance_text(n) ==
  LET m == IF n < 0 THEN -n ELSE n
  IN (IF n < 0 THEN <<"-">> ELSE <<>>)
       \o to_string(m \div 100)
       \o <<".", Digits[((m % 100) \div 10) + 1], Digits[(m % 10) + 1]>>

\* C23: whatever the balance in the range, the CLI's format_balance and the
\* MCP server's both give a leading '-' exactly for a negative value, the
\* whole part of the magnitude, '.', and two digits of cents, and so the same
\* text; -150023 reads "-1500.23", -5 reads "-0.05" and 200 reads "2.00".
C23_FormatBalance ==
  /\ rendered.cli # None => rendered.cli = Some(balance_text(acc_balance))
  /\ rendered.mcp # None => rendered.mcp = Some(balance_text(acc_balance))
  /\ (rendered.cli # None /\ rendered.mcp # None) => rendered.cli = rendered.mcp
  /\ (rendered.cli # None /\ acc_balance = -150023) =>
       rendered.cli = Some(<<"-", "1", "5", "0", "0", ".", "2", "3">>)
  /\ (rendered.cli # None /\ acc_balance = -5) =>
       rendered.cli = Some(<<"-", "0", ".", "0", "5">>)
  /\ (rendered.cli # None /\ acc_balance = 200) =>
       rendered.cli = Some(<<"2", ".", "0", "0">>)

\* C23's case: a balance between -99 and -1 put to text by both programs.
C23_Witness ==
  /\ acc_balance = -5
  /\ rendered.cli = Some(<<"-", "0", ".", "0", "5">>)
  /\ rendered.mcp # None

\* C24 as stated: whenever the amount or the reference field has the focus,
\* the stored show_suggestions flag is false.
C24_FlagFalseOutsideAccountFields ==
  transfer_form.selected_field \in {2, 3} => ~transfer_form.show_suggestions

\* C24, amended: whenever the amount or the reference field has the focus,
\* draw_transfer offers no suggestions (the stored flag may still be set: Up
\* and Down move the focus without clearing it, and it is ignored there).
C24_NoSuggestionsOffered ==
  (current_view = "Transfer" /\ transfer_form.selected_field \in {2, 3}) =>
    /\ ~draw_transfer(App).show_suggestions
    /\ draw_transfer(App).suggestions = <<>>

\* C24's case: the focus moved from an account field to the amount while the
\* suggestions were showing.
C24_Witness ==
  /\ current_view = "Transfer"
  /\ transfer_form.selected_field = 2
  /\ transfer_form.show_suggestions
  /\ accounts # <<>>
  /\ calls = <<>>

\* navigate_to_breadcrumb(index) leaves the detail and the data lists alone.
NavigationKeepsData(index) ==
  LET a == navigate_to_breadcrumb(App, index)
  IN /\ a.participant_detail = participant_detail
     /\ a.participants = participants
     /\ a.accounts = accounts
     /\ a.history = history
     /\ a.future_events = future_events

C26_MissingAccountsKeepsForm ==
  /\ \A t \in WorldTransfer.transfers, k \in BOOLEAN :
       (transfer_form.from_account = <<>> \/ transfer_form.to_account = <<>>) =>
         LET a == execute_transfer(App, t, k)
             expected == IF parse_int(transfer_form.amount) = None
                         THEN InvalidAmount ELSE MissingAccounts
         IN /\ a.transfer_form = [transfer_form EXCEPT !.error = Some(expected),
                                                       !.success = None]
            /\ ~InLog(a.calls, "transfer")
            /\ a.sent = None
            /\ a.history = history
            /\ ~a.panicked
  /\ (InLog(calls, "execute_transfer") /\ transfer_form.error = Some(MissingAccounts)) =>
       /\ ~InLog(calls, "transfer")
       /\ sent = None
       /\ parse_int(transfer_form.amount) # None
       /\ transfer_form.from_account = <<>> \/ transfer_form.to_account = <<>>
       /\ transfer_form.success = None

\* C26's case: a form with an amount that parses and no to account was
\* submitted and rejected as it stands.
C26_Witness ==
  /\ InLog(calls, "execute_transfer")
  /\ transfer_form.error = Some(MissingAccounts)
  /\ transfer_form.amount = <<"5">>
  /\ transfer_form.from_account # <<>>
  /\ transfer_form.to_account = <<>>

\* What an edit of the focused field is stated to do to the form: the focused
\* field holds text, the other three fields are as before, the suggestion
\* index is cleared and the suggestions show exactly for an account field.
EditedForm(form, text) ==
  LET field == transfer_form.selected_field
  IN /\ field_text(form, field) = text
     /\ \A other \in (0..3) \ {field} :
          field_text(form, other) = field_text(transfer_form, other)
     /\ form.suggestion_index = None
     /\ form.show_suggestions = (field \in {0, 1})
     /\ form.selected_field = field

\* C27: in the Transfer view handle_char(c) appends c to the focused field
\* and handle_backspace removes its last character, if it has one; the other
\* three fields keep their text, suggestion_index becomes none and
\* show_suggestions becomes true for fields 0 and 1 and false for 2 and 3;
\* nothing outside the form changes.  In any other view both change nothing.
C27_EditsFocusedFieldOnly ==
  \A c \in OtherChars \cup {"r", "1"} :
    LET typed == handle_char(App, c)
        erased == handle_backspace(App)
        text == field_text(transfer_form, transfer_form.selected_field)
    IN IF current_view = "Transfer"
       THEN /\ EditedForm(typed.transfer_form, text \o <<c>>)
            /\ EditedForm(erased.transfer_form,
                          IF text = <<>> THEN <<>> ELSE SubSeq(text, 1, Len(text) - 1))
            /\ typed = [App EXCEPT !.transfer_form = typed.transfer_form]
            /\ erased = [App EXCEPT !.transfer_form = erased.transfer_form]
       ELSE typed = App /\ erased = App

\* C27's case: "A" was typed into the empty from account; the suggestions
\* show with none selected.
C27_Witness ==
  /\ current_view = "Transfer"
  /\ from_view = "Transfer"
  /\ calls = <<>>
  /\ transfer_form.selected_field = 0
  /\ transfer_form.from_account = <<"A">>
  /\ transfer_form.show_suggestions
  /\ transfer_form.suggestion_index = None

\* The cases in which C28 states next_suggestion and prev_suggestion to do
\* nothing: another view, a field that is not an account, no match.
NothingToSuggest ==
  \/ current_view # "Transfer"
  \/ transfer_form.selected_field > 1
  \/ get_account_suggestions(App) = <<>>

\* C28: outside the Transfer view, with the amount or the reference focused,
\* or with no account matching the focused text, next_suggestion and
\* prev_suggestion leave the whole App as it is (texts, suggestion_index,
\* show_suggestions, selected_field and everything else); so a Tab or
\* Shift+Tab on an account field without matches changes nothing.
C28_NoSuggestionNoChange ==
  /\ NothingToSuggest =>
       /\ [next_suggestion(App) EXCEPT !.calls = <<>>] = App
       /\ [prev_suggestion(App) EXCEPT !.calls = <<>>] = App
  /\ (NothingToSuggest /\ current_view = "Transfer"
        /\ transfer_form.selected_field <= 1) =>
       \A e \in EnterAnswers(WorldSuggest) :
         /\ on_tab(App, e) = [App EXCEPT !.calls = <<"next_suggestion">>]
         /\ on_backtab(App, e) = [App EXCEPT !.calls = <<"prev_suggestion">>]

\* C28's case: Tab on the from account, whose text matches no account, left
\* the suggestions off and none selected.
C28_Witness ==
  /\ calls = <<"next_suggestion">>
  /\ current_view = "Transfer"
  /\ transfer_form.selected_field = 0
  /\ transfer_form.from_account = <<"x">>
  /\ accounts # <<>>
  /\ get_account_suggestions(App) = <<>>
  /\ ~transfer_form.show_suggestions
  /\ transfer_form.suggestion_index = None

AccountFieldFocused == current_view = "Transfer" /\ transfer_form.selected_field <= 1

\* C30: with an account field of the transfer form focused, Tab calls only
\* next_suggestion and Shift+Tab only prev_suggestion, and the view stays
\* Transfer; with the amount or the reference focused and in every other
\* view they land where next_view / prev_view land; the Right and Left
\* arrows land where next_view / prev_view land in every state.
C30_TabCyclesOrNavigates ==
  /\ \A e \in EnterAnswers(World) :
       LET tab == on_tab(App, e)
           backtab == on_backtab(App, e)
           right == on_right(App, e)
           left == on_left(App, e)
           next == next_view(App)
           prev == prev_view(App)
       IN /\ IF AccountFieldFocused
             THEN /\ tab.calls = <<"next_suggestion">> /\ tab.current_view = "Transfer"
                  /\ backtab.calls = <<"prev_suggestion">>
                  /\ backtab.current_view = "Transfer"
             ELSE /\ InLog(tab.calls, "next_view")
                  /\ tab.current_view = next.current_view
                  /\ tab.breadcrumb = next.breadcrumb
                  /\ InLog(backtab.calls, "prev_view")
                  /\ backtab.current_view = prev.current_view
                  /\ backtab.breadcrumb = prev.breadcrumb
          /\ InLog(right.calls, "next_view")
          /\ right.current_view = next.current_view
          /\ right.breadcrumb = next.breadcrumb
          /\ InLog(left.calls, "prev_view")
          /\ left.current_view = prev.current_view
          /\ left.breadcrumb = prev.breadcrumb
  /\ (InLog(calls, "next_suggestion") \/ InLog(calls, "prev_suggestion")) =>
       /\ Len(calls) = 1
       /\ from_view = "Transfer"
       /\ current_view = "Transfer"
       /\ transfer_form.selected_field <= 1

\* C30's case: Tab on the to account of the transfer form went to
\* next_suggestion and the view stayed.
C30_Witness ==
  /\ calls = <<"next_suggestion">>
  /\ from_view = "Transfer"
  /\ current_view = "Transfer"
  /\ transfer_form.selected_field = 1

\* C31: the back key navigates along the breadcrumb exactly when it has more
\* than one segment; pressed in the ParticipantDetail view it makes
\* Participants the current view with the breadcrumb [Participants]; with a
\* single segment it changes neither the view nor the breadcrumb.
C31_BackKeyLeavesDetail ==
  \A pl \in World.plists :
    LET a == on_char(App, "b", [NoAnswers EXCEPT !.plist = pl])
    IN /\ InLog(a.calls, "navigate_to_breadcrumb") <=> Len(breadcrumb) > 1
       /\ Len(breadcrumb) = 1 =>
            a.current_view = current_view /\ a.breadcrumb = breadcrumb
       /\ current_view = "ParticipantDetail" =>
            /\ a.current_view = "Participants"
            /\ a.breadcrumb = <<Segment("Participants", "Participants", None)>>

\* The selected index refers to a row of the participant list.
RowSelected ==
  participant_state # <<>> /\ participant_state[1] < Len(participants)

\* C32: Enter in the Participants view with a row selected calls
\* load_participant_detail, for the id of that row (the detail a successful
\* load leaves has that id), and nothing else, makes ParticipantDetail the
\* current view and leaves the breadcrumb update_breadcrumb derives, whatever
\* the load answered; with an empty list or an index out of range Enter
\* changes nothing.  The drill-down is complete when the iteration ends, at
\* the next render or at the loop's exit.
C32_EnterDrillsDown ==
  /\ current_view = "Participants" =>
       \A d \in World.details :
         LET a == on_enter(App, with_detail(NoAnswers, d))
         IN IF RowSelected
            THEN /\ a.calls = <<"load_participant_detail">>
                 /\ a.current_view = "ParticipantDetail"
                 /\ a.breadcrumb = TrailOf("ParticipantDetail", a.participant_detail)
                 /\ (d.detail_ok /\ d.detail_accounts_ok) =>
                      /\ a.participant_detail # <<>>
                      /\ a.participant_detail[1].id
                           = participants[participant_state[1] + 1].id
                 /\ ~(d.detail_ok /\ d.detail_accounts_ok) =>
                      a.participant_detail = participant_detail
            ELSE a = App
  /\ (from_view = "Participants" /\ current_view = "ParticipantDetail") =>
       /\ calls = <<"load_participant_detail">>
       /\ pc \in {"loop", "done"}
       /\ breadcrumb = TrailOf("ParticipantDetail", participant_detail)

\* C32's case: Enter on the second row opened that participant's detail.
C32_Witness ==
  /\ from_view = "Participants"
  /\ current_view = "ParticipantDetail"
  /\ calls = <<"load_participant_detail">>
  /\ participant_state = Some(1)
  /\ Len(participants) = 2
  /\ participant_detail # <<>>
  /\ participant_detail[1].id = participants[2].id

\* C33: q in any view and Esc in any view but Transfer clear the running flag
\* and the loop ends with that very iteration, no further event dispatched;
\* Esc in the Transfer view resets the transfer form to its default and
\* leaves the running flag alone, so that the loop goes on (unless an earlier
\* Ctrl+C had cleared the flag already).
C33_QuitKeysStopEscClearsForm ==
  [][/\ (KeyQuit \/ (KeyEsc /\ current_view # "Transfer")) =>
          ~running' /\ pc' = "done"
     /\ (KeyEsc /\ current_view = "Transfer") =>
          /\ transfer_form' = TransferForm_default
          /\ running' = running
          /\ current_view' = "Transfer"
          /\ running => pc' = "loop"
     /\ pc = "done" => UNCHANGED vars]_vars

\* C33's case: a quit key pressed in the detail view ended the loop with
\* that iteration.
C33_Witness ==
  /\ pc = "done"
  /\ ~running
  /\ current_view = "ParticipantDetail"
  /\ from_view = "ParticipantDetail"
  /\ calls = <<>>

\* The lines of `lines` that C34 states to be answered, in order.
RECURSIVE Answered(_)
Answered(lines) ==
  IF lines = <<>> THEN <<>>
  ELSE LET line == Head(lines)
           answered ==
             \/ line.kind = "garbage"
             \/ line.kind = "request"
                  /\ ~(Len(line.method) >= 1 /\ line.method[1] = "notifications/")
       IN (IF answered THEN <<line>> ELSE <<>>) \o Answered(Tail(lines))

\* C34: at any moment stdout holds one response for each line the loop is
\* done with that is a request other than a notification or does not parse,
\* in the order of the lines, and nothing for notifications and empty lines;
\* the response to a request carries its id (null when it has none) and
\* exactly one of result and error, the response to a line that does not
\* parse carries id null and the error -32700; after such a line the loop
\* reads on; the next line is read only after the request before it was
\* answered.
C34_ResponsesInInputOrder ==
  LET answered == Answered(mcp.read)
  IN /\ Len(mcp.stdout) = Len(answered)
     /\ \A i \in 1..Len(answered) :
          LET line == answered[i]
              response == mcp.stdout[i]
          IN /\ (response.result = None) # (response.error = None)
             /\ line.kind = "request" =>
                  response.id = (IF line.id = <<>> THEN "null" ELSE line.id[1])
             /\ line.kind = "garbage" =>
                  /\ response.id = "null"
                  /\ response.result = None
                  /\ response.error[1].code = -32700
     /\ (mcp.ended /\ mcp.stdin # <<>>) => mcp.request = None
     /\ (~mcp.ended /\ mcp.request = None /\ mcp.stdin # <<>>) => ENABLED ReadLine

\* C34's case: a line that does not parse, a notification and a request with
\* id 2 were read, and two responses written: the parse error, then the
\* answer to 2.
C34_Witness ==
  /\ Len(mcp.read) = 3
  /\ mcp.read[1].kind = "garbage"
  /\ mcp.read[2].method = <<"notifications/", "initialized">>
  /\ mcp.read[3].id = Some("2")
  /\ Len(mcp.stdout) = 2
  /\ mcp.stdout[1].error # None
  /\ mcp.stdout[2].id = "2"
  /\ mcp.ended

\* C35: when a drill-down has made ParticipantDetail the current view and a
\* detail is present, it is the detail of the row that was selected (the
\* drill-down changes neither the list nor the selection).
C35_DetailOfSelectedRow ==
  (from_view = "Participants" /\ current_view = "ParticipantDetail"
     /\ participant_detail # <<>> /\ RowSelected) =>
    participant_detail[1].id = participants[participant_state[1] + 1].id

\* C36: at every render after the initial load or an iteration of the loop,
\* the loading flag is false.
C36_NotLoadingAtRender ==
  pc = "loop" => ~loading

\* C37: whenever suggestion_index is present, it is smaller than the number
\* of accounts get_account_suggestions returns for the focused field.
C37_SuggestionIndexInRange ==
  (current_view = "Transfer" /\ transfer_form.suggestion_index # <<>>) =>
    transfer_form.suggestion_index[1] < Len(get_account_suggestions(App))

\* k consecutive Tab presses in an account field: next_suggestion, k times.
RECURSIVE TabPresses(_, _)
TabPresses(a, k) ==
  IF k = 0 THEN a ELSE next_suggestion(TabPresses(a, k - 1))

\* C38: right after the user typed a filter text in the focused account field
\* (suggestions shown, none selected) that matches n >= 2 accounts, the k-th
\* of n consecutive next_suggestion calls puts the id of the k-th match (in
\* cache order) into the field, and the (n + 1)-th call puts the first match
\* there again.
C38_TabVisitsEveryMatch ==
  LET matches == get_account_suggestions(App)
      n == Len(matches)
      field == transfer_form.selected_field
  IN (/\ current_view = "Transfer"
      /\ field \in {0, 1}
      /\ field_text(transfer_form, field) # <<>>
      /\ transfer_form.show_suggestions
      /\ transfer_form.suggestion_index = <<>>
      /\ n >= 2) =>
       /\ \A k \in 1..n :
            field_text(TabPresses(App, k).transfer_form, field) = matches[k].id
       /\ field_text(TabPresses(App, n + 1).transfer_form, field) = matches[1].id

\* C39: after every dispatched key event the stored breadcrumb is the
\* sequence update_breadcrumb derives from the current view and the loaded
\* participant detail (label = detail name, context = detail id).
C39_BreadcrumbIsDerived ==
  pc = "loop" => breadcrumb = update_breadcrumb(App).breadcrumb

\* C40: whenever the participant list is non-empty, the selected participant
\* index is a valid index into it.
C40_SelectionInRange ==
  (pc = "loop" /\ participants # <<>>) =>
    (participant_state # <<>> /\ participant_state[1] < Len(participants))

====
